---- MODULE Spec2Model ----
(***************************************************************************)
(* FabricVisualizer (components/FabricVisualizer.js): the React effect     *)
(* that maps a ParameterSet to a lattice scene, runs the frame loop,       *)
(* handles pointer / wheel / resize input and tears the scene down.        *)
(*                                                                         *)
(* Units.  Parameters are hundredths (50 is 0.5).  scale, deformation      *)
(* strength and zoomLevel are thousandths (1000 is 1.0).  Rotation is in   *)
(* hundredths of a radian per pixel of pointer travel (deltaX * 0.01), and *)
(* the animation clock counts hundredths (time += 0.01).  Geometry and     *)
(* material objects are counted per kind and per scene, not named one by   *)
(* one: a scene of gridSize 18 and 3 layers holds 972 cells.               *)
(***************************************************************************)
EXTENDS Integers, Sequences, FiniteSets, TLC

VARIABLES
  mounted,            \* the component instance is mounted
  parameters,         \* the `parameters` prop: {} is null, {p} a ParameterSet
  container,          \* canvases (by scene) that are children of the container div
  sceneRef,           \* sceneRef.current: a scene number, 0 is null
  rendererRef,        \* rendererRef.current: a scene number, 0 is null
  animationFrameRef,  \* animationFrameRef.current: a frame request id, NoFrame is null
  effectCleanup,      \* the scene whose cleanup function React holds, 0 is none
  generation,         \* number of scenes built so far
  closures,           \* per scene: the effect closure's variables (and `frames`, the
                      \* number of animate calls so far), or Collected
  resources,          \* per scene: live geometry / material counts
  renderers,          \* scenes whose WebGLRenderer is not disposed
  listeners,          \* registered event listeners
  rafCallbacks,       \* frame requests scheduled and not yet run or cancelled
  viewport,           \* clientWidth / clientHeight of the container (an index)
  disposeBegun,       \* history: scenes on which a dispose traversal has started
  pendingAtDispose,   \* history: scenes disposed while one of their frames was pending
  ranAfterDispose,    \* history: scenes whose animate ran after their disposal began
  peakGenerations,    \* history: most scenes holding live resources at once
  lastView,           \* history: the view state of the scene torn down last, until the next build
  drag,               \* history: the drag in progress, as the drag specification follows it
  input,              \* Home: the text of the textarea
  loading,            \* Home: the loading flag
  result,             \* Home: the analysis result, NoResult is null
  requests,           \* Home: per handleSubmit call, where it stands and what happened to it
  analyzeTextClientSide, \* pages/index.js module variable: the client-side function is loaded
  preloadPending,     \* the import started at module load has not settled
  apiKey,             \* NEXT_PUBLIC_OPENAI_API_KEY is set in the build
  moduleLoads,        \* import('../lib/openai-client') succeeds in this deployment
  apiCalls            \* /api/analyze: the handler calls made: the request, where it stands, what was sent

pageVars == <<input, loading, result, requests, analyzeTextClientSide, preloadPending,
              apiKey, moduleLoads>>

serverVars == <<apiCalls>>

vars == <<mounted, parameters, container, sceneRef, rendererRef, animationFrameRef,
          effectCleanup, generation, closures, resources, renderers, listeners,
          rafCallbacks, viewport, disposeBegun, pendingAtDispose, ranAfterDispose,
          peakGenerations, lastView, drag, pageVars, serverVars>>

----------------------------------------------------------------------------
(* Bounds of the model. *)

MaxGen == 2        \* scenes built in one behaviour
MaxFrames == 2     \* frames executed per scene
MaxRot == 1        \* |rotationX| + |rotationY| reached by dragging
MaxRequests == 2   \* handleSubmit calls in one behaviour
MaxMoves == 2      \* pointer moves counted within one drag
MaxCalls == 2      \* calls of the /api/analyze handler in one behaviour

Scenes == 1..MaxGen

----------------------------------------------------------------------------
(* Inputs. *)

Fields == {"Fit", "Mesh", "Thickness", "Airflow", "Support"}

AllHalf == [Fit |-> 50, Mesh |-> 50, Thickness |-> 50, Airflow |-> 50, Support |-> 50]

Dense == [Fit |-> 0, Mesh |-> 0, Thickness |-> 0, Airflow |-> 90, Support |-> 100]

\* the `parameters` prop values of the lifecycle specification
ParameterSets == {AllHalf, Dense}

\* one field swept over `values`, the others at 0.5
Sweep(f, values) == {[AllHalf EXCEPT ![f] = v] : v \in values}

\* objects with fields left out (an absent field reads undefined), next to
\* present fields of value 0; the last one is the empty object
PartialParameterSets ==
  {[Fit |-> 0, Mesh |-> 0],
   [Thickness |-> 0, Airflow |-> 0, Support |-> 0],
   [Mesh |-> 100, Thickness |-> 100, Airflow |-> 70],
   [f \in {} |-> 0]}

\* Thickness outside [0, 1]: the analysis result is passed on as parsed
UnclampedParameterSets == Sweep("Thickness", {-50, -20, 150})

\* the `parameters` prop values of the mapper specification; Mesh moves in
\* steps of 0.25, where GridSize is exact
MapperParameterSets ==
  Sweep("Fit", {10 * i : i \in 0..10})
    \cup Sweep("Mesh", {0, 25, 50, 75, 100})
    \cup Sweep("Thickness", 0..100)
    \cup Sweep("Airflow", 0..100)
    \cup Sweep("Support", {10 * i : i \in 0..10})
    \cup {[f \in Fields |-> 0], [f \in Fields |-> 100], Dense}
    \cup PartialParameterSets
    \cup UnclampedParameterSets

\* the `parameters` prop values of the lattice specification: every grid
\* size with one to five layers, and the unclamped layer counts
LatticeParameterSets ==
  {[AllHalf EXCEPT !.Mesh = m, !.Thickness = t] :
     m \in {0, 25, 50, 75, 100}, t \in {0, 25, 50, 75, 100}}
    \cup UnclampedParameterSets

\* inputs that yield no cell: a layer count of 0 or -1, or a grid of size 0
EmptySceneParameterSets ==
  Sweep("Thickness", {-50, -20}) \cup Sweep("Mesh", {-300})

\* every ParameterSet some specification passes in
AllParameterSets ==
  ParameterSets \cup MapperParameterSets \cup LatticeParameterSets
    \cup EmptySceneParameterSets

\* pointer positions (clientX, clientY) and wheel deltas (deltaY)
Positions == {[clientX |-> 0, clientY |-> 0], [clientX |-> 1, clientY |-> 0],
              [clientX |-> 0, clientY |-> 1]}

WheelDeltas == {-2700, 2700}

Viewports == {1, 2}

----------------------------------------------------------------------------
(* ParameterMapper: lines 31-44. *)

DefaultParameter == 50

\* variant: parameters.X || 0.5, which also replaces the value 0
Nullish_Falsy(p, f) == IF f \in DOMAIN p /\ p[f] # 0 THEN p[f] ELSE DefaultParameter

\* parameters.X ?? 0.5 : an absent field (undefined / null) takes the default
Nullish(p, f) == IF f \in DOMAIN p THEN p[f] ELSE DefaultParameter

\* Math.round(num / den) for den > 0: floor(x + 0.5)
Round(num, den) == (2 * num + den) \div (2 * den)

RECURSIVE Pow2(_)
Pow2(n) == IF n <= 0 THEN 1 ELSE 2 * Pow2(n - 1)

\* const scale = 0.8 + fit * 0.4, in thousandths
Scale(fit) == 800 + fit * 4

\* variant: 9 to 36 by linear interpolation, Math.round(9 + 27 * mesh)
GridSize_Linear(mesh) == Round(900 + 27 * mesh, 100)

\* Math.round(9 * Math.pow(2, mesh * 2)) for mesh a multiple of 0.25:
\* with k = 4 * mesh the value v = 9 * 2^(k/2) has 4 v^2 = 324 * 2^k, and
\* Math.round(v) = n iff n - 1/2 <= v < n + 1/2.
GridSize(mesh) ==
  LET k   == mesh \div 25
      num == IF k >= 0 THEN 324 * Pow2(k) ELSE 324
      den == IF k >= 0 THEN 1 ELSE Pow2(-k)
      top == 9 * Pow2((k + 1) \div 2) + 1
  IN  CHOOSE n \in 0..top :
        /\ n = 0 \/ (2 * n - 1) * (2 * n - 1) * den <= num
        /\ (2 * n + 1) * (2 * n + 1) * den > num

\* variant: the factor 5 of a "1 to 5" range in place of 4
NumLayers_FactorFive(thickness) == Round(100 + 5 * thickness, 100)

\* const numLayers = Math.round(1 + thickness * 4)
NumLayers(thickness) == Round(100 + 4 * thickness, 100)

\* const deformationStrength = (1 - support) * 0.8, in thousandths
DeformationStrength(support) == (100 - support) * 8

\* const baseOutlineOpacity = 0.5 + airflow * 0.4, in thousandths
BaseOutlineOpacity(airflow) == 500 + airflow * 4

----------------------------------------------------------------------------
(* CellDecorator: ornament selection, lines 392-591. *)

\* variant: the face-strut thresholds 0.34 / 0.67 used for the diagonals
NumDiagonals_FaceThresholds(airflow) ==
  IF airflow >= 34 /\ airflow < 67 THEN 2
  ELSE IF airflow >= 67 THEN 4
  ELSE 0

\* variant: the lower threshold of each band excluded
NumDiagonals_StrictLower(airflow) ==
  IF airflow > 33 /\ airflow < 66 THEN 2
  ELSE IF airflow > 66 THEN 4
  ELSE 0

\* if (airflow >= 0.33 && airflow < 0.66) 2 else if (airflow >= 0.66) 4 else 0
NumDiagonals(airflow) ==
  IF airflow >= 33 /\ airflow < 66 THEN 2
  ELSE IF airflow >= 66 THEN 4
  ELSE 0

\* corner indices: 0-3 bottom (front-left, front-right, back-right, back-left),
\* 4-7 the same corners of the top face
diagonalPairs == << <<0, 6>>, <<1, 7>>, <<2, 4>>, <<3, 5>> >>

\* for (let i = 0; i < numDiagonals; i++) diagonalPairs[i]: the struts of the
\* cell at (x, z) of `layer`
CellDiagonals(x, z, layer, airflow) == SubSeq(diagonalPairs, 1, NumDiagonals(airflow))

bottomX == [face |-> "bottom", lines |-> << <<0, 2>>, <<1, 3>> >>]
topX    == [face |-> "top",    lines |-> << <<4, 6>>, <<5, 7>> >>]
frontX  == [face |-> "front",  lines |-> << <<0, 5>>, <<1, 4>> >>]
backX   == [face |-> "back",   lines |-> << <<2, 7>>, <<3, 6>> >>]
rightX  == [face |-> "right",  lines |-> << <<1, 6>>, <<2, 5>> >>]
leftX   == [face |-> "left",   lines |-> << <<3, 4>>, <<0, 7>> >>]

\* variant: the diagonal thresholds 0.33 / 0.66 used for the face struts
FaceXLines_DiagonalThresholds(x, z, layer, airflow) ==
  IF airflow >= 33 /\ airflow < 66 THEN <<bottomX, topX>>
  ELSE IF airflow >= 66 THEN <<bottomX, topX, frontX, backX, rightX, leftX>>
  ELSE << >>

\* faceXLines of the cell at (x, z) of `layer`: the faces that get an X, each
\* with the corner pairs of its two lines
FaceXLines(x, z, layer, airflow) ==
  IF airflow >= 34 /\ airflow < 67 THEN <<bottomX, topX>>
  ELSE IF airflow >= 67 THEN <<bottomX, topX, frontX, backX, rightX, leftX>>
  ELSE << >>

\* const faces = [...]: the corner indices of the two triangles of each face
\* of the cube, [a, b, c, a, c, d] for the quad a-b-c-d
cubeFaces ==
  [bottom |-> <<0, 1, 2, 0, 2, 3>>, top   |-> <<4, 7, 6, 4, 6, 5>>,
   front  |-> <<0, 4, 5, 0, 5, 1>>, back  |-> <<2, 6, 7, 2, 7, 3>>,
   right  |-> <<1, 5, 6, 1, 6, 2>>, left  |-> <<3, 7, 4, 3, 4, 0>>]

\* animate's own table of the diagonal corner pairs
animateDiagonalPairs == << <<0, 6>>, <<1, 7>>, <<2, 4>>, <<3, 5>> >>

\* variant: the two lines of the left face exchanged
faceVertexPairs_LeftSwapped ==
  [bottom |-> << <<0, 2>>, <<1, 3>> >>, top   |-> << <<4, 6>>, <<5, 7>> >>,
   front  |-> << <<0, 5>>, <<1, 4>> >>, back  |-> << <<2, 7>>, <<3, 6>> >>,
   right  |-> << <<1, 6>>, <<2, 5>> >>, left  |-> << <<0, 7>>, <<3, 4>> >>]

\* animate's table of the corner pairs of each face X
faceVertexPairs ==
  [bottom |-> << <<0, 2>>, <<1, 3>> >>, top   |-> << <<4, 6>>, <<5, 7>> >>,
   front  |-> << <<0, 5>>, <<1, 4>> >>, back  |-> << <<2, 7>>, <<3, 6>> >>,
   right  |-> << <<1, 6>>, <<2, 5>> >>, left  |-> << <<3, 4>>, <<0, 7>> >>]

\* The lines of a cell: each line is the pair of corner indices its two end
\* points were computed from, and `at` is the position array content all of
\* them were taken from.  All cells of a scene have the same lines.
\* setFromPoints([vertices[startIdx], vertices[endIdx]]) at build
BuiltLines(airflow, rest) ==
  [diagonalLines |-> CellDiagonals(0, 0, 0, airflow),
   faceXLines    |-> FaceXLines(0, 0, 0, airflow),
   at            |-> rest]

\* diagonalLines.forEach((line, lineIdx) => ...) and faceXLines.forEach(faceX
\* => faceX.lines.forEach((line, lineIdx) => ...)): both end points of every
\* line are set to the displaced corners the tables of animate name
MovedLines(lines, displaced) ==
  [diagonalLines |->
     [i \in 1..Len(lines.diagonalLines) |-> animateDiagonalPairs[i]],
   faceXLines |->
     [k \in 1..Len(lines.faceXLines) |->
        [face  |-> lines.faceXLines[k].face,
         lines |-> [i \in 1..Len(lines.faceXLines[k].lines) |->
                      faceVertexPairs[lines.faceXLines[k].face][i]]]],
   at |-> displaced]

RECURSIVE LineCount(_)
LineCount(faces) ==
  IF faces = << >> THEN 0 ELSE Len(Head(faces).lines) + LineCount(Tail(faces))

----------------------------------------------------------------------------
(* The build: lines 31-45 (configuration) and 125-596 (layer loop). *)

Config(p) ==
  LET fit       == Nullish(p, "Fit")
      mesh      == Nullish(p, "Mesh")
      thickness == Nullish(p, "Thickness")
      airflow   == Nullish(p, "Airflow")
      support   == Nullish(p, "Support")
      gridSize  == GridSize(mesh)
  IN  [fit |-> fit, mesh |-> mesh, thickness |-> thickness, airflow |-> airflow,
       support |-> support,
       scale |-> Scale(fit),
       gridSize |-> gridSize,
       numLayers |-> NumLayers(thickness),
       deformationStrength |-> DeformationStrength(support),
       outlineOpacity |-> BaseOutlineOpacity(airflow),
       gridWidth |-> gridSize,
       gridHeight |-> gridSize]

\* for (z < gridHeight) for (x < gridWidth): number of cells of one layer
CellCount(gridWidth, gridHeight) ==
  (IF gridHeight > 0 THEN gridHeight ELSE 0) * (IF gridWidth > 0 THEN gridWidth ELSE 0)

\* One pass of the layer loop: the layerGroup added to the scene.  Every cell
\* of the layer gets a mesh, an outline and its ornaments (geometries.forEach).
BuildLayer(layer, cfg) ==
  [layer     |-> layer,
   scale     |-> cfg.scale,
   cells     |-> CellCount(cfg.gridWidth, cfg.gridHeight),
   diagonals |-> Len(CellDiagonals(0, 0, layer, cfg.airflow)),
   faces     |-> Len(FaceXLines(0, 0, layer, cfg.airflow)),
   faceLines |-> LineCount(FaceXLines(0, 0, layer, cfg.airflow))]

\* for (let layer = 0; layer < numLayers; layer++) { ... scene.add(layerGroup) }
RECURSIVE LayerLoop(_, _, _)
LayerLoop(layer, cfg, acc) ==
  IF layer < cfg.numLayers
    THEN LayerLoop(layer + 1, cfg, Append(acc, BuildLayer(layer, cfg)))
    ELSE acc

RECURSIVE SumOver(_, _)
SumOver(layers, f) ==
  IF layers = << >> THEN 0
  ELSE (CASE f = "cells"     -> Head(layers).cells
          [] f = "diagonals" -> Head(layers).cells * Head(layers).diagonals
          [] f = "faceLines" -> Head(layers).cells * Head(layers).faceLines)
       + SumOver(Tail(layers), f)

Kinds == {"geometry", "cubeMaterial", "outlineGeometry", "outlineMaterial",
          "diagonalGeometry", "faceGeometry"}

\* What the objects of a scene graph reference, per kind: one geometry and one
\* material per mesh, one geometry and one material per outline, one geometry
\* per diagonal line and per face line (these share the outline's material).
GraphCounts(layers) ==
  [k \in Kinds |->
     CASE k = "geometry"         -> SumOver(layers, "cells")
       [] k = "cubeMaterial"     -> SumOver(layers, "cells")
       [] k = "outlineGeometry"  -> SumOver(layers, "cells")
       [] k = "outlineMaterial"  -> SumOver(layers, "cells")
       [] k = "diagonalGeometry" -> SumOver(layers, "diagonals")
       [] k = "faceGeometry"     -> SumOver(layers, "faceLines")]

\* the layer groups the effect builds for ParameterSet p
Layers(p) == LayerLoop(0, Config(p), << >>)

\* the effect closure keeps the ParameterSet it was run with; its
\* configuration and scene graph are the ones built from it
ConfigOf(c) == Config(c.parameters)
LayersOf(c) == Layers(c.parameters)

NoCounts == [k \in Kinds |-> 0]

\* what the scene graph built for each input references
SceneGraphs == [p \in AllParameterSets |-> GraphCounts(Layers(p))]

SceneGraph(c) == SceneGraphs[c.parameters]

\* per scene: `alive` counts the undisposed resources the scene graph still
\* references, `orphan` the undisposed ones no object references any more
NoResources == [alive |-> NoCounts, orphan |-> NoCounts]

LiveTotal(r) ==
  LET RECURSIVE Add(_)
      Add(S) == IF S = {} THEN 0
                ELSE LET k == CHOOSE x \in S : TRUE
                     IN  r.alive[k] + r.orphan[k] + Add(S \ {k})
  IN  Add(Kinds)

----------------------------------------------------------------------------
(* LatticeBuilder: the shared vertex grid and the per-layer lattices,      *)
(* lines 80-302.  A coordinate is kept symbolically: x and z name the grid *)
(* point <<x, z>> whose deformed base position they hold, y names the grid *)
(* point and the number of times cubeSize was added to its base height.    *)

\* vertexGrid.push({x: baseX + waveX, z: baseZ + waveZ, y: waveY}) for
\* z <= gridHeight (outer loop), x <= gridWidth (inner loop)
VertexGrid(gridWidth, gridHeight) ==
  [i \in 1..((gridWidth + 1) * (gridHeight + 1)) |->
     LET x == (i - 1) % (gridWidth + 1)
         z == (i - 1) \div (gridWidth + 1)
     IN  [x |-> <<x, z>>, y |-> <<x, z, 0>>, z |-> <<x, z>>]]

Null == [tag |-> "null"]

\* let currentLayerBottomVertices = null
NullLattice == [id |-> -1, rows |-> << >>]

\* variant: every layer takes its bottom corners from the vertex grid
Corner_AlwaysGrid(layer, vertexGrid, bottom, x, z, dx, dz, gridWidth) ==
  vertexGrid[(z + dz) * (gridWidth + 1) + (x + dx) + 1]

\* one corner of the cell at (x, z), dx and dz in {0, 1}: from the vertex grid
\* for layer 0, from the previous layer's top lattice otherwise (arrays are
\* 0-based in the source, sequences 1-based here)
Corner(layer, vertexGrid, bottom, x, z, dx, dz, gridWidth) ==
  IF layer = 0
    THEN vertexGrid[(z + dz) * (gridWidth + 1) + (x + dx) + 1]
    ELSE bottom.rows[(z + dz) + 1][(x + dx) + 1]

\* v00, v10, v01, v11 of the cell at (x, z)
CellCorners(layer, vertexGrid, bottom, x, z, gridWidth) ==
  [v00 |-> Corner(layer, vertexGrid, bottom, x, z, 0, 0, gridWidth),
   v10 |-> Corner(layer, vertexGrid, bottom, x, z, 1, 0, gridWidth),
   v01 |-> Corner(layer, vertexGrid, bottom, x, z, 0, 1, gridWidth),
   v11 |-> Corner(layer, vertexGrid, bottom, x, z, 1, 1, gridWidth)]

\* { x: v.x, y: v.y + cubeSize, z: v.z }
TopOf(v) == [x |-> v.x, y |-> <<v.y[1], v.y[2], v.y[3] + 1>>, z |-> v.z]

\* variant: a flat top face, every top corner at topY00
CubeVertices_FlatTop(c) ==
  LET flat(v) == [x |-> v.x, y |-> TopOf(c.v00).y, z |-> v.z]
  IN  <<c.v00, c.v10, c.v11, c.v01, flat(c.v00), flat(c.v10), flat(c.v11), flat(c.v01)>>

\* const vertices = [bottom v00, v10, v11, v01, top v00, v10, v11, v01]
CubeVertices(c) ==
  <<c.v00, c.v10, c.v11, c.v01,
    TopOf(c.v00), TopOf(c.v10), TopOf(c.v11), TopOf(c.v01)>>

\* variant: the cell loops run downwards, so the guarded writes come first
WritesTo_Reversed(i, j, gridWidth, gridHeight) ==
  SelectSeq(<< [x |-> j,     z |-> i,     dx |-> 0, dz |-> 0, guarded |-> TRUE],
               [x |-> j - 1, z |-> i,     dx |-> 1, dz |-> 0, guarded |-> TRUE],
               [x |-> j,     z |-> i - 1, dx |-> 0, dz |-> 1, guarded |-> TRUE],
               [x |-> j - 1, z |-> i - 1, dx |-> 1, dz |-> 1, guarded |-> FALSE] >>,
            LAMBDA w : /\ w.x >= 0 /\ w.x < gridWidth
                       /\ w.z >= 0 /\ w.z < gridHeight)

\* The writes that reach entry [i][j] of currentLayerTopVertices, in the order
\* of the cell loop (z outer, x inner): cell (j-1, i-1) writes its v11
\* unconditionally, cells (j, i-1), (j-1, i) and (j, i) write their v01, v10
\* and v00 only where the entry is still null.  Cells outside the grid do
\* not exist.
WritesTo(i, j, gridWidth, gridHeight) ==
  SelectSeq(<< [x |-> j - 1, z |-> i - 1, dx |-> 1, dz |-> 1, guarded |-> FALSE],
               [x |-> j,     z |-> i - 1, dx |-> 0, dz |-> 1, guarded |-> TRUE],
               [x |-> j - 1, z |-> i,     dx |-> 1, dz |-> 0, guarded |-> TRUE],
               [x |-> j,     z |-> i,     dx |-> 0, dz |-> 0, guarded |-> TRUE] >>,
            LAMBDA w : /\ w.x >= 0 /\ w.x < gridWidth
                       /\ w.z >= 0 /\ w.z < gridHeight)

\* the entry after the writes ws, starting from cur:
\* if (entry === null) entry = {x, y + cubeSize, z}, or the plain assignment
RECURSIVE StoreTop(_, _, _, _, _, _)
StoreTop(ws, cur, layer, vertexGrid, bottom, gridWidth) ==
  IF ws = << >> THEN cur
  ELSE LET w == Head(ws)
       IN  StoreTop(Tail(ws),
                    IF w.guarded /\ cur # Null THEN cur
                    ELSE TopOf(Corner(layer, vertexGrid, bottom,
                                      w.x, w.z, w.dx, w.dz, gridWidth)),
                    layer, vertexGrid, bottom, gridWidth)

\* the assignments of ws that are executed, the entry being null or not at
\* the start: a guarded one is skipped on a set entry; `overwrites` tells
\* whether the assignment replaced a value
RECURSIVE TopWrites(_, _)
TopWrites(ws, isNull) ==
  IF ws = << >> THEN << >>
  ELSE LET w == Head(ws)
       IN  IF w.guarded /\ ~isNull THEN TopWrites(Tail(ws), isNull)
           ELSE << [x |-> w.x, z |-> w.z, dx |-> w.dx, dz |-> w.dz,
                    overwrites |-> ~isNull] >> \o TopWrites(Tail(ws), FALSE)

\* const currentLayerTopVertices = [], a new array per layer, filled with
\* null by the first cell and written by every cell
TopLattice(layer, vertexGrid, bottom, gridWidth, gridHeight) ==
  [id   |-> layer,
   rows |-> [i \in 1..(gridHeight + 1) |->
              [j \in 1..(gridWidth + 1) |->
                 StoreTop(WritesTo(i - 1, j - 1, gridWidth, gridHeight), Null,
                          layer, vertexGrid, bottom, gridWidth)]]]

\* the layer loop as far as the lattices go: each pass reads
\* currentLayerBottomVertices and ends with
\* currentLayerBottomVertices = currentLayerTopVertices
RECURSIVE LatticeLoop(_, _, _, _, _, _, _)
LatticeLoop(layer, numLayers, vertexGrid, bottom, gridWidth, gridHeight, acc) ==
  IF layer < numLayers
    THEN LET top == TopLattice(layer, vertexGrid, bottom, gridWidth, gridHeight)
         IN  LatticeLoop(layer + 1, numLayers, vertexGrid, top, gridWidth, gridHeight,
                         Append(acc, [bottom |-> bottom, top |-> top]))
    ELSE acc

LatticeKey(cfg) == <<cfg.gridWidth, cfg.gridHeight, cfg.numLayers>>

\* the lattices of every scene the inputs build
Lattices ==
  [k \in {LatticeKey(Config(p)) : p \in AllParameterSets} |->
     LatticeLoop(0, k[3], VertexGrid(k[1], k[2]), NullLattice, k[1], k[2], << >>)]

LatticeOf(cfg) == Lattices[LatticeKey(cfg)]

\* the eight vertices of the cell at (x, z) of `layer`
VerticesAt(cfg, layer, x, z) ==
  CubeVertices(CellCorners(layer, VertexGrid(cfg.gridWidth, cfg.gridHeight),
                           LatticeOf(cfg)[layer + 1].bottom, x, z, cfg.gridWidth))

----------------------------------------------------------------------------
(* The state as one record, so that a handler is the composition of its    *)
(* statements in source order.                                             *)

World ==
  [mounted |-> mounted, parameters |-> parameters, container |-> container,
   sceneRef |-> sceneRef, rendererRef |-> rendererRef,
   animationFrameRef |-> animationFrameRef, effectCleanup |-> effectCleanup,
   generation |-> generation, closures |-> closures, resources |-> resources,
   renderers |-> renderers, listeners |-> listeners, rafCallbacks |-> rafCallbacks,
   viewport |-> viewport, disposeBegun |-> disposeBegun,
   pendingAtDispose |-> pendingAtDispose, ranAfterDispose |-> ranAfterDispose,
   peakGenerations |-> peakGenerations, lastView |-> lastView]

\* the next state is the world x the handler leaves
Install(w) ==
  \E x \in {w} :
    /\ mounted' = x.mounted
    /\ parameters' = x.parameters
    /\ container' = x.container
    /\ sceneRef' = x.sceneRef
    /\ rendererRef' = x.rendererRef
    /\ animationFrameRef' = x.animationFrameRef
    /\ effectCleanup' = x.effectCleanup
    /\ generation' = x.generation
    /\ closures' = x.closures
    /\ resources' = x.resources
    /\ renderers' = x.renderers
    /\ listeners' = x.listeners
    /\ rafCallbacks' = x.rafCallbacks
    /\ viewport' = x.viewport
    /\ disposeBegun' = x.disposeBegun
    /\ pendingAtDispose' = x.pendingAtDispose
    /\ ranAfterDispose' = x.ranAfterDispose
    /\ peakGenerations' = x.peakGenerations
    /\ lastView' = x.lastView
    /\ UNCHANGED <<drag, pageVars, serverVars>>

NoFrame == [scene |-> 0, seq |-> 0]

Collected == [tag |-> "collected"]

IsLive(c) == c.tag = "live"

\* rotationX, rotationY, zoomLevel of a closure
View(c) == [rotationX |-> c.rotationX, rotationY |-> c.rotationY,
            zoomLevel |-> c.zoomLevel]

NoView == [tag |-> "none"]

\* no drag is being followed
NoDrag == [scene |-> 0]

\* geometryTime of buffers that hold the rest positions (no frame has moved them)
AtRest == -1

----------------------------------------------------------------------------
(* Disposal: scene.traverse(child => dispose geometry and material),       *)
(* lines 15-26 and 845-854; renderer.dispose(), lines 27-29 and 855.       *)

\* variant: if (child.isMesh) ... : lines and outlines are skipped
DisposeScene_MeshesOnly(w, g) ==
  [w EXCEPT !.resources[g].alive =
               [k \in Kinds |-> IF k \in {"geometry", "cubeMaterial"} THEN 0 ELSE @[k]],
            !.disposeBegun = @ \cup {g},
            !.pendingAtDispose =
               IF \E id \in w.rafCallbacks : id.scene = g THEN @ \cup {g} ELSE @]

\* Every object of the graph disposes the geometry and the material it
\* references now.  Resources no object references are not reached.
DisposeScene(w, g) ==
  [w EXCEPT !.resources[g].alive = NoCounts,
            !.disposeBegun = @ \cup {g},
            !.pendingAtDispose =
               IF \E id \in w.rafCallbacks : id.scene = g THEN @ \cup {g} ELSE @]

DisposeRenderer(w, g) == [w EXCEPT !.renderers = @ \ {g}]

\* if (sceneRef.current) traverse-dispose; if (rendererRef.current) dispose
CleanupPreviousScene(w) ==
  LET w1 == IF w.sceneRef # 0 THEN DisposeScene(w, w.sceneRef) ELSE w
  IN  IF w1.rendererRef # 0 THEN DisposeRenderer(w1, w1.rendererRef) ELSE w1

----------------------------------------------------------------------------
(* Listeners: lines 637-641 and 829 register, lines 833-838 remove.        *)

Listener(target, g, type, handler) ==
  [target |-> target, scene |-> g, type |-> type, handler |-> handler]

\* renderer.domElement.addEventListener(...) x 5
CanvasRegistrations(g) ==
  { Listener("canvas", g, "mousedown",  "onMouseDown"),
    Listener("canvas", g, "mousemove",  "onMouseMove"),
    Listener("canvas", g, "mouseup",    "onMouseUp"),
    Listener("canvas", g, "mouseleave", "onMouseUp"),
    Listener("canvas", g, "wheel",      "onWheel") }

\* window.addEventListener("resize", handleResize)
WindowRegistrations(g) == { Listener("window", g, "resize", "handleResize") }

\* variant: the mouseleave registration, which shares onMouseUp, is forgotten
CleanupRemovals_NoMouseLeave(g) ==
  << Listener("window", g, "resize",     "handleResize"),
     Listener("canvas", g, "mousedown",  "onMouseDown"),
     Listener("canvas", g, "mousemove",  "onMouseMove"),
     Listener("canvas", g, "mouseup",    "onMouseUp"),
     Listener("canvas", g, "wheel",      "onWheel") >>

\* the removeEventListener calls of the cleanup, in source order
CleanupRemovals(g) ==
  << Listener("window", g, "resize",     "handleResize"),
     Listener("canvas", g, "mousedown",  "onMouseDown"),
     Listener("canvas", g, "mousemove",  "onMouseMove"),
     Listener("canvas", g, "mouseup",    "onMouseUp"),
     Listener("canvas", g, "mouseleave", "onMouseUp"),
     Listener("canvas", g, "wheel",      "onWheel") >>

AddListeners(w, regs) == [w EXCEPT !.listeners = @ \cup regs]

\* removeEventListener removes the registration with the same target, type
\* and handler, and does nothing when there is none
RemoveListeners(w, removals) ==
  [w EXCEPT !.listeners = @ \ {removals[i] : i \in 1..Len(removals)}]

----------------------------------------------------------------------------
(* The frame loop: animate, lines 644-820.                                 *)

initialCameraDistance == 45

\* the increment of `time`, in hundredths
TimeStep == 1

\* requestAnimationFrame returns a fresh handle: the scene and the number of
\* the animate call that requests it
RequestAnimationFrame(w, g) ==
  LET id == [scene |-> g, seq |-> w.closures[g].frames + 1]
  IN  [w EXCEPT !.rafCallbacks = @ \cup {id}, !.animationFrameRef = id]

\* variant: the cancelled request stays scheduled
CancelAnimationFrame_Noop(w, id) == w

\* cancelAnimationFrame(id): the request, if still scheduled, is dropped
CancelAnimationFrame(w, id) == [w EXCEPT !.rafCallbacks = @ \ {id}]

\* variant: the increment scaled by the zoom level
AdvanceClock_Scaled(w, g) ==
  [w EXCEPT !.closures[g].time =
               @ + (IF w.closures[g].zoomLevel > 1000 THEN 2 * TimeStep ELSE TimeStep),
            !.closures[g].trace = Append(@, "clock")]

\* time += 0.01
AdvanceClock(w, g) ==
  [w EXCEPT !.closures[g].time = @ + TimeStep,
            !.closures[g].trace = Append(@, "clock")]

\* The content of a position array, for all cells alike: the rest corners
\* of the build (VerticesAt), with getWaveOffset applied `passes` times on
\* top of one another, the last time at clock value `time`.
RestPositions == [base |-> "rest", passes |-> 0, time |-> AtRest]

\* the lines of a cell of the scene built for each input, at rest
SceneLines == [p \in AllParameterSets |-> BuiltLines(Config(p).airflow, RestPositions)]

\* The closure keeps of the lines which code set their end points last (the
\* build, or the two forEach loops of animate with their own tables) and the
\* array content read; LinesOf is the end points that stands for.
LinesOf(c) ==
  IF c.lines.table = "build" THEN BuiltLines(ConfigOf(c).airflow, c.lines.at)
  ELSE MovedLines(SceneLines[c.parameters], c.lines.at)

\* getWaveOffset(x, y, z) for every position of the array p, at clock t
getWaveOffset(p, t) == [base |-> p.base, passes |-> p.passes + 1, time |-> t]

\* variant: the loop reads the buffer it writes
DisplaceVertices_InPlace(w, g) ==
  LET c == w.closures[g]
  IN  [w EXCEPT !.closures[g].positions = getWaveOffset(c.positions, c.time),
                !.closures[g].lines =
                   [table |-> "animate", at |-> getWaveOffset(c.originalPositions, c.time)],
                !.closures[g].geometryTime = c.time,
                !.closures[g].trace = Append(@, "geometry")]

\* the position buffers of every cell, its diagonals and its face struts are
\* rewritten to getWaveOffset(rest position) at the present value of `time`
DisplaceVertices(w, g) ==
  LET c == w.closures[g]
  IN  [w EXCEPT !.closures[g].positions = getWaveOffset(c.originalPositions, c.time),
                !.closures[g].lines =
                   [table |-> "animate", at |-> getWaveOffset(c.originalPositions, c.time)],
                !.closures[g].geometryTime = c.time,
                !.closures[g].trace = Append(@, "geometry")]

\* outline.geometry = new THREE.EdgesGeometry(geometry), for every cell: the
\* outlines reference fresh geometries, the replaced ones are referenced by
\* nothing any more
ReplaceOutlineGeometry(w, g) ==
  LET n   == SceneGraph(w.closures[g])["outlineGeometry"]
      old == w.resources[g].alive["outlineGeometry"]
  IN  [w EXCEPT !.resources[g].alive["outlineGeometry"] = n,
                !.resources[g].orphan["outlineGeometry"] = @ + old,
                !.closures[g].outlineTime = w.closures[g].geometryTime]

\* variant: the replaced geometries are left to the garbage collector
DisposeOldGeometry_Never(w, g, old) == w

\* if (oldGeometry) oldGeometry.dispose(), for the `old` replaced geometries
DisposeOldGeometry(w, g, old) ==
  [w EXCEPT !.resources[g].orphan["outlineGeometry"] = @ - old]

\* allGeometries.forEach: positions rewritten from originalPositions, then the
\* outline regenerated and the replaced geometry disposed
RegenerateOutlines(w, g) ==
  DisposeOldGeometry(ReplaceOutlineGeometry(w, g), g,
                     w.resources[g].alive["outlineGeometry"])

\* scene.rotation.y = rotationY; scene.rotation.x = rotationX;
\* camera at initialCameraDistance / zoomLevel along (1, 0.8, 1), in thousandths
ApplyViewTransform(w, g) ==
  LET c == w.closures[g]
  IN  [w EXCEPT !.closures[g].sceneRotationY = c.rotationY,
                !.closures[g].sceneRotationX = c.rotationX,
                !.closures[g].cameraDistance =
                   (initialCameraDistance * 1000 * 1000) \div c.zoomLevel,
                !.closures[g].trace = Append(@, "view")]

\* renderer.render(scene, camera): whatever the graph references is uploaded,
\* so it is live after the call even if it had been disposed
\* `rendered` is what the call draws: the buffers as they are, under the
\* scene rotation and the camera position as they are
Render(w, g) ==
  LET c == w.closures[g]
  IN  [w EXCEPT !.resources[g].alive = SceneGraph(c),
                !.closures[g].rendered =
                   [geometryTime |-> c.geometryTime,
                    rotationX |-> c.sceneRotationX,
                    rotationY |-> c.sceneRotationY,
                    cameraDistance |-> c.cameraDistance],
                !.closures[g].trace = Append(@, "render")]

\* the invocation starts: `frameInput` is the ViewState it finds, `trace` the
\* steps it has made
EnterFrame(w, g) ==
  [w EXCEPT !.closures[g].frameInput = View(w.closures[g]),
            !.closures[g].trace = << >>]

\* variant: the scene is drawn before the view transform is applied
Animate_RenderFirst(w, g) ==
  LET w0 == EnterFrame(w, g)
      w1 == RequestAnimationFrame(w0, g)
      w2 == AdvanceClock(w1, g)
      w3 == [w2 EXCEPT !.closures[g].frames = @ + 1,
                       !.ranAfterDispose =
                          IF g \in w2.disposeBegun THEN @ \cup {g} ELSE @]
      n  == SceneGraph(w3.closures[g])["geometry"]
      w4 == IF n = 0 THEN w3 ELSE RegenerateOutlines(DisplaceVertices(w3, g), g)
  IN  ApplyViewTransform(Render(w4, g), g)

\* variant: the empty-scene branch returns at once
Animate_EmptyReturns(w, g) ==
  LET w0 == EnterFrame(w, g)
      w1 == RequestAnimationFrame(w0, g)
      w2 == AdvanceClock(w1, g)
      w3 == [w2 EXCEPT !.closures[g].frames = @ + 1,
                       !.ranAfterDispose =
                          IF g \in w2.disposeBegun THEN @ \cup {g} ELSE @]
      n  == SceneGraph(w3.closures[g])["geometry"]
  IN  IF n = 0 THEN w3
      ELSE Render(ApplyViewTransform(
             RegenerateOutlines(DisplaceVertices(w3, g), g), g), g)

Animate(w, g) ==
  LET w0 == EnterFrame(w, g)
      w1 == RequestAnimationFrame(w0, g)
      w2 == AdvanceClock(w1, g)
      w3 == [w2 EXCEPT !.closures[g].frames = @ + 1,
                       !.ranAfterDispose =
                          IF g \in w2.disposeBegun THEN @ \cup {g} ELSE @]
      n  == SceneGraph(w3.closures[g])["geometry"]
      \* if (allGeometries.length === 0 || originalPositions.length === 0)
      w4 == IF n = 0 THEN w3 ELSE RegenerateOutlines(DisplaceVertices(w3, g), g)
  IN  Render(ApplyViewTransform(w4, g), g)

----------------------------------------------------------------------------
(* ViewController: lines 598-641, and handleResize, lines 822-829.         *)

minZoom == 300
maxZoom == 3000

Max(a, b) == IF a >= b THEN a ELSE b
Min(a, b) == IF a <= b THEN a ELSE b
Abs(a) == IF a >= 0 THEN a ELSE -a

onMouseDown(c, e) ==
  [c EXCEPT !.mouseDown = TRUE, !.mouseX = e.clientX, !.mouseY = e.clientY]

\* variant: the anchor is moved before the deltas are taken
onMouseMove_AnchorFirst(c, e) ==
  IF ~c.mouseDown THEN c
  ELSE [c EXCEPT !.mouseX = e.clientX, !.mouseY = e.clientY]

\* variant: without the `if (!mouseDown) return` guard
onMouseMove_Always(c, e) ==
  [c EXCEPT !.rotationY = @ + (e.clientX - c.mouseX),
            !.rotationX = @ + (e.clientY - c.mouseY),
            !.mouseX = e.clientX,
            !.mouseY = e.clientY]

onMouseMove(c, e) ==
  IF ~c.mouseDown THEN c
  ELSE [c EXCEPT !.rotationY = @ + (e.clientX - c.mouseX),
                 !.rotationX = @ + (e.clientY - c.mouseY),
                 !.mouseX = e.clientX,
                 !.mouseY = e.clientY]

onMouseUp(c, e) == [c EXCEPT !.mouseDown = FALSE]

\* variant: only the lower clamp
onWheel_NoUpperClamp(c, e) ==
  [c EXCEPT !.zoomLevel = Max(minZoom, c.zoomLevel - e.deltaY)]

\* zoomLevel = Math.max(minZoom, Math.min(maxZoom, zoomLevel - e.deltaY * 0.001))
onWheel(c, e) ==
  [c EXCEPT !.zoomLevel = Max(minZoom, Min(maxZoom, c.zoomLevel - e.deltaY))]

\* variant: the resize also restarts the animation clock
handleResize_ResetsClock(c, e) ==
  IF ~e.attached THEN c
  ELSE [c EXCEPT !.cameraAspect = e.size, !.rendererSize = e.size, !.time = 0]

\* if (!containerRef.current) return; camera.aspect = ...; renderer.setSize(...)
\* `e` carries what the handler reads of the container: whether the ref is
\* set, and its size
handleResize(c, e) ==
  IF ~e.attached THEN c
  ELSE [c EXCEPT !.cameraAspect = e.size, !.rendererSize = e.size]

\* the handler a registration names, applied to the closure it was created in
RunHandler(c, handler, e) ==
  CASE handler = "onMouseDown"  -> onMouseDown(c, e)
    [] handler = "onMouseMove"  -> onMouseMove(c, e)
    [] handler = "onMouseUp"    -> onMouseUp(c, e)
    [] handler = "onWheel"      -> onWheel(c, e)
    [] handler = "handleResize" -> handleResize(c, e)

----------------------------------------------------------------------------
(* Colours: getCubeColor and getOutlineColor, lines 304-346.  Hue is in    *)
(* degrees; saturation and lightness are thousandths.  (x + z) * 0.6 * 10  *)
(* is the integer 6 (x + z), so the sum is kept in tenths.                 *)

\* variant: the outline keeps the unscaled x + z (xyScale = 1.0)
getOutlineColor_Unscaled(x, z, layer, gridWidth, gridHeight, numLayers) ==
  LET layerWeight == Max(gridWidth, gridHeight)
      adjustedSum == (x + z) * 10 + (layer * layerWeight) * 10
  IN  [h |-> adjustedSum % 360, s |-> 600, l |-> 300]

\* sum = (x + z) * xyScale + layer * layerWeight; hue = (sum * 10) % 360
getCubeColor(x, z, layer, gridWidth, gridHeight, numLayers) ==
  LET layerWeight == Max(gridWidth, gridHeight)
      adjustedSum == (x + z) * 6 + (layer * layerWeight) * 10
  IN  [h |-> adjustedSum % 360, s |-> 600, l |-> 500]

\* the same hue, at lightness 0.3
getOutlineColor(x, z, layer, gridWidth, gridHeight, numLayers) ==
  LET layerWeight == Max(gridWidth, gridHeight)
      adjustedSum == (x + z) * 6 + (layer * layerWeight) * 10
  IN  [h |-> adjustedSum % 360, s |-> 600, l |-> 300]

\* cubeMaterial.color and outlineMaterial.color of the cell cubePositions[idx]
CellColors(cfg, x, z, layer) ==
  [cube    |-> getCubeColor(x, z, layer, cfg.gridWidth, cfg.gridHeight, cfg.numLayers),
   outline |-> getOutlineColor(x, z, layer, cfg.gridWidth, cfg.gridHeight, cfg.numLayers)]

----------------------------------------------------------------------------
(* SceneLifecycle: the effect body, lines 11-830, and its cleanup, 832-856. *)

\* A closure nothing references (no listener, no scheduled frame, no cleanup
\* function held by React) cannot be observed any more and is collected.
Collect(w) ==
  [w EXCEPT !.closures =
     [g \in Scenes |->
        IF \/ w.effectCleanup = g
           \/ \E l \in w.listeners : l.scene = g
           \/ \E id \in w.rafCallbacks : id.scene = g
        THEN w.closures[g] ELSE Collected]]

LiveScenes(w) == {g \in Scenes : LiveTotal(w.resources[g]) > 0}

\* lines 46-69 and 81-596: scene, camera, renderer, canvas, lattice, layers;
\* lines 598-609 and 644: the controls and the clock of this scene
CreateScene(w, p) ==
  LET g      == w.generation + 1
      w1 == [w EXCEPT
               !.generation = g,
               !.sceneRef = g,
               !.rendererRef = g,
               !.renderers = @ \cup {g},
               !.container = @ \cup {g},
               !.lastView = NoView,
               !.resources[g] = [alive |-> SceneGraphs[p], orphan |-> NoCounts],
               !.closures[g] =
                  [tag |-> "live", parameters |-> p,
                   mouseDown |-> FALSE, mouseX |-> 0, mouseY |-> 0,
                   rotationX |-> 0, rotationY |-> 0, zoomLevel |-> 1000,
                   time |-> 0, frames |-> 0,
                   sceneRotationX |-> 0, sceneRotationY |-> 0,
                   cameraDistance |-> 0,
                   originalPositions |-> RestPositions, positions |-> RestPositions,
                   lines |-> [table |-> "build", at |-> RestPositions],
                   geometryTime |-> AtRest, outlineTime |-> AtRest, frameInput |-> NoView,
                   rendered |-> NoView, trace |-> << >>,
                   cameraAspect |-> w.viewport, rendererSize |-> w.viewport]]
  IN  [w1 EXCEPT !.peakGenerations = Max(@, Cardinality(LiveScenes(w1)))]

\* the effect body for a ParameterSet p
Build(w, p) ==
  LET w1 == CleanupPreviousScene(w)
      w2 == CreateScene(w1, p)
      g  == w2.generation
      w3 == AddListeners(w2, CanvasRegistrations(g))
      w4 == Animate(w3, g)
      w5 == AddListeners(w4, WindowRegistrations(g))
  IN  [w5 EXCEPT !.effectCleanup = g]

\* if (!containerRef.current || !parameters) return;  (no cleanup is returned)
Effect(w) ==
  IF w.parameters = {} THEN [w EXCEPT !.effectCleanup = 0]
  ELSE Build(w, CHOOSE p \in w.parameters : TRUE)

\* variant: the scene is disposed first and the frame cancelled afterwards
Cleanup_DisposeBeforeCancel(w, g, attached) ==
  LET w1 == RemoveListeners(w, CleanupRemovals(g))
      w2 == IF attached THEN [w1 EXCEPT !.container = @ \ {g}] ELSE w1
      w3 == DisposeScene(w2, g)
      w4 == DisposeRenderer(w3, g)
      w5 == IF w4.animationFrameRef # NoFrame
              THEN CancelAnimationFrame(w4, w4.animationFrameRef) ELSE w4
  IN  [w5 EXCEPT !.effectCleanup = 0, !.lastView = View(w.closures[g])]

\* the function the effect returned for scene g; `attached` is whether
\* containerRef.current is still set when it runs
Cleanup(w, g, attached) ==
  LET w1 == RemoveListeners(w, CleanupRemovals(g))
      w2 == IF w1.animationFrameRef # NoFrame
              THEN CancelAnimationFrame(w1, w1.animationFrameRef) ELSE w1
      w3 == IF attached THEN [w2 EXCEPT !.container = @ \ {g}] ELSE w2
      w4 == DisposeScene(w3, g)
      w5 == DisposeRenderer(w4, g)
  IN  [w5 EXCEPT !.effectCleanup = 0, !.lastView = View(w.closures[g])]

RunCleanup(w, attached) ==
  IF w.effectCleanup # 0 THEN Cleanup(w, w.effectCleanup, attached) ELSE w

----------------------------------------------------------------------------
(* Actions: what React and the browser call.                               *)

InitScene ==
  /\ mounted = FALSE
  /\ parameters = {}
  /\ container = {}
  /\ sceneRef = 0
  /\ rendererRef = 0
  /\ animationFrameRef = NoFrame
  /\ effectCleanup = 0
  /\ generation = 0
  /\ closures = [g \in Scenes |-> Collected]
  /\ resources = [g \in Scenes |-> NoResources]
  /\ renderers = {}
  /\ listeners = {}
  /\ rafCallbacks = {}
  /\ viewport = 1
  /\ disposeBegun = {}
  /\ pendingAtDispose = {}
  /\ ranAfterDispose = {}
  /\ peakGenerations = 0
  /\ lastView = NoView
  /\ drag = NoDrag

NoResult == [tag |-> "null"]

\* a property that is not there
Undefined == [defined |-> FALSE, value |-> ""]

\* a handler call before its first statement
NoCall == [pc |-> "idle", method |-> "none", body |-> [isNull |-> TRUE, text |-> Undefined],
           key |-> FALSE, sent |-> << >>, modelCalled |-> FALSE]

InitServer == apiCalls = << >>

NoRequest == [pc |-> "idle", via |-> "none", serverFailed |-> FALSE,
              clientAttempted |-> FALSE, alerted |-> FALSE]

\* Home before any input, in a deployment with or without the public key
\* and the client-side module
InitPage(key, loads) ==
  /\ input = ""
  /\ loading = FALSE
  /\ result = NoResult
  /\ requests = [r \in 1..MaxRequests |-> NoRequest]
  /\ analyzeTextClientSide = FALSE
  /\ preloadPending = TRUE
  /\ apiKey = key
  /\ moduleLoads = loads

Init == InitScene /\ InitPage(FALSE, FALSE) /\ InitServer

\* a new component instance is mounted with prop ps: fresh refs, then the effect
Mount(ps) ==
  /\ ~mounted
  /\ ps = {} \/ generation < MaxGen
  /\ Install(Collect(Effect(
       [World EXCEPT !.mounted = TRUE, !.parameters = ps, !.container = {},
                     !.sceneRef = 0, !.rendererRef = 0,
                     !.animationFrameRef = NoFrame, !.effectCleanup = 0])))

\* the prop changes while mounted: React runs the previous cleanup, then the effect
SetParameters(ps) ==
  /\ mounted
  /\ ps # {} \/ parameters # {}
  /\ ps = {} \/ generation < MaxGen
  /\ Install(Collect(Effect(
       RunCleanup([World EXCEPT !.parameters = ps], TRUE))))

\* the component unmounts: React runs the cleanup; the container div leaves
\* the document.  Whether containerRef.current is already null when the
\* cleanup runs depends on the React version.
Unmount ==
  /\ mounted
  /\ \E attached \in BOOLEAN :
       Install(Collect(
         [RunCleanup(World, attached) EXCEPT
            !.mounted = FALSE, !.parameters = {}, !.container = {},
            !.sceneRef = 0, !.rendererRef = 0, !.animationFrameRef = NoFrame]))

\* the browser runs a scheduled frame callback
Frame ==
  \E id \in rafCallbacks :
    /\ IsLive(closures[id.scene])
    /\ closures[id.scene].frames < MaxFrames
    /\ Install(Collect(Animate([World EXCEPT !.rafCallbacks = @ \ {id}], id.scene)))

lifecycleVars ==
  <<mounted, parameters, container, sceneRef, rendererRef, animationFrameRef,
    effectCleanup, generation, resources, renderers, listeners, rafCallbacks,
    disposeBegun, pendingAtDispose, ranAfterDispose, peakGenerations, lastView>>

\* the handler of listener l runs on the event e of `type`
Handle(l, type, e) ==
  /\ l.type = type
  /\ IsLive(closures[l.scene])
  /\ LET c == RunHandler(closures[l.scene], l.handler, e)
     IN  /\ Abs(c.rotationX) + Abs(c.rotationY) <= MaxRot
         /\ closures' = [closures EXCEPT ![l.scene] = c]
  /\ UNCHANGED <<lifecycleVars, viewport, pageVars, serverVars>>

\* the listener l receives the event e of `type`
DispatchTo(l, type, e) == Handle(l, type, e) /\ UNCHANGED drag

\* the browser dispatches an event of `type` to one registered listener
Dispatch(type, e) == \E l \in listeners : DispatchTo(l, type, e)

MouseDown == \E e \in Positions : Dispatch("mousedown", e)
MouseMove == \E e \in Positions : Dispatch("mousemove", e)
MouseUp == Dispatch("mouseup", [type |-> "mouseup"])
MouseLeave == Dispatch("mouseleave", [type |-> "mouseleave"])
Wheel == \E d \in WheelDeltas : Dispatch("wheel", [deltaY |-> d])

\* The same pointer events, with the drag followed: where the pointer went
\* down and the rotation at that moment, and where the pointer was last.
DragDown ==
  \E e \in Positions, l \in listeners :
    /\ Handle(l, "mousedown", e)
    /\ drag' = [scene |-> l.scene, x0 |-> e.clientX, y0 |-> e.clientY,
                rotationX0 |-> closures[l.scene].rotationX,
                rotationY0 |-> closures[l.scene].rotationY,
                xn |-> e.clientX, yn |-> e.clientY, moves |-> 0]

DragMove ==
  \E e \in Positions, l \in listeners :
    /\ Handle(l, "mousemove", e)
    /\ drag' = IF drag.scene = l.scene
                 THEN [drag EXCEPT !.xn = e.clientX, !.yn = e.clientY,
                                   !.moves = Min(@ + 1, MaxMoves)]
                 ELSE drag

DragUp ==
  \E l \in listeners :
    /\ Handle(l, "mouseup", [type |-> "mouseup"])
    /\ drag' = IF drag.scene = l.scene THEN NoDrag ELSE drag

DragLeave ==
  \E l \in listeners :
    /\ Handle(l, "mouseleave", [type |-> "mouseleave"])
    /\ drag' = IF drag.scene = l.scene THEN NoDrag ELSE drag

\* the window is resized: every resize listener runs
Resize ==
  \E v \in Viewports :
    /\ v # viewport
    /\ viewport' = v
    /\ closures' =
         [g \in Scenes |->
            IF \E l \in listeners : l.type = "resize" /\ l.scene = g
              THEN RunHandler(closures[g], "handleResize",
                              [attached |-> mounted, size |-> v])
              ELSE closures[g]]
    /\ UNCHANGED <<lifecycleVars, drag, pageVars, serverVars>>

----------------------------------------------------------------------------
(* Home (pages/index.js): handleSubmit, lines 48-144 of part_003, the      *)
(* Enter key handler, lines 146-159, and the preload of the client-side    *)
(* module, lines 10-23.  handleSubmit is asynchronous: every await is a    *)
(* point where other events run, so each stretch between two awaits is an  *)
(* action.                                                                 *)

sceneVars == <<lifecycleVars, closures, viewport, drag>>

Texts == {"", "  ", "a cold windy day"}

\* input.trim()
Trim(text) == IF text = "  " THEN "" ELSE text

\* what fetch("/api/analyze") settles with: a response with a status, or a
\* rejection with a message
Statuses == {200, 400, 404, 405, 500}

Rejections == {"Failed to fetch", "Load failed"}

\* error.message.includes('Failed to fetch') || error.message.includes('NetworkError')
IsNetworkError(message) == message = "Failed to fetch"

\* the handleSubmit calls so far
Started == {r \in 1..MaxRequests : requests[r].pc # "idle"}

\* alert(...); setLoading(false); return, and the path through finally
AlertAndStop(r) ==
  /\ requests' = [requests EXCEPT ![r].pc = "done", ![r].alerted = TRUE]
  /\ loading' = FALSE
  /\ UNCHANGED <<result, analyzeTextClientSide>>

\* const apiKey = ...; if (apiKey && analyzeTextClientSide) await
\* analyzeTextClientSide(input, apiKey); else if (!apiKey) alert; otherwise
\* the code after the fallback block: await res.json() for a response, the
\* final alert for a rejection.  `loaded` is analyzeTextClientSide as it is now.
AfterModule(r, via, loaded) ==
  IF apiKey /\ loaded
    THEN /\ requests' = [requests EXCEPT ![r].pc = "client", ![r].via = via,
                                          ![r].serverFailed = TRUE,
                                          ![r].clientAttempted = TRUE]
         /\ UNCHANGED <<loading, result>>
  ELSE IF ~apiKey
    THEN /\ requests' = [requests EXCEPT ![r].pc = "done", ![r].via = via,
                                          ![r].serverFailed = TRUE,
                                          ![r].alerted = TRUE]
         /\ loading' = FALSE
         /\ UNCHANGED result
  ELSE IF via = "response"
    THEN /\ requests' = [requests EXCEPT ![r].pc = "errorJson", ![r].via = via,
                                          ![r].serverFailed = TRUE]
         /\ UNCHANGED <<loading, result>>
  ELSE /\ requests' = [requests EXCEPT ![r].pc = "done", ![r].via = via,
                                        ![r].serverFailed = TRUE,
                                        ![r].alerted = TRUE]
       /\ loading' = FALSE
       /\ UNCHANGED result

\* the fallback block: if (!analyzeTextClientSide) await import(...)
Fallback(r, via) ==
  IF ~analyzeTextClientSide
    THEN /\ requests' = [requests EXCEPT ![r].pc = "import", ![r].via = via,
                                          ![r].serverFailed = TRUE]
         /\ UNCHANGED <<loading, result, analyzeTextClientSide>>
    ELSE /\ AfterModule(r, via, analyzeTextClientSide)
         /\ UNCHANGED analyzeTextClientSide

\* handleSubmit up to its first await:
\* if (!input.trim()) return; setLoading(true); setResult(null); fetch(...)
handleSubmit ==
  /\ Cardinality(Started) < MaxRequests
  /\ IF Trim(input) = ""
       THEN UNCHANGED <<loading, result, requests>>
       ELSE /\ loading' = TRUE
            /\ result' = NoResult
            /\ requests' = [requests EXCEPT ![Cardinality(Started) + 1].pc = "fetch"]
  /\ UNCHANGED <<input, analyzeTextClientSide, preloadPending, apiKey, moduleLoads, sceneVars, serverVars>>

\* onChange of the textarea
SetInput ==
  \E text \in Texts :
    /\ text # input
    /\ input' = text
    /\ UNCHANGED <<loading, result, requests, analyzeTextClientSide, preloadPending,
                   apiKey, moduleLoads, sceneVars, serverVars>>

\* keydown Enter without modifiers: if (!input.trim() || loading) return
KeyEnter ==
  /\ Trim(input) # ""
  /\ ~loading
  /\ handleSubmit

\* the submit event of the form (onSubmit={handleSubmit})
FormSubmit == handleSubmit

\* the import started when the module was evaluated settles
PreloadSettles ==
  /\ preloadPending
  /\ preloadPending' = FALSE
  /\ analyzeTextClientSide' = (analyzeTextClientSide \/ moduleLoads)
  /\ UNCHANGED <<input, loading, result, requests, apiKey, moduleLoads, sceneVars, serverVars>>

\* await fetch(...) settles with a response
FetchResponds(r, status) ==
  /\ requests[r].pc = "fetch"
  /\ IF status = 200
       THEN /\ requests' = [requests EXCEPT ![r].pc = "json", ![r].via = "response"]
            /\ UNCHANGED <<loading, result, analyzeTextClientSide>>
       ELSE IF status = 404 \/ status = 405
         THEN Fallback(r, "response")
         ELSE /\ requests' = [requests EXCEPT ![r].pc = "errorJson",
                                               ![r].via = "response",
                                               ![r].serverFailed = TRUE]
              /\ UNCHANGED <<loading, result, analyzeTextClientSide>>
  /\ UNCHANGED <<input, preloadPending, apiKey, moduleLoads, sceneVars, serverVars>>

\* await fetch(...) rejects: the catch block
FetchRejects(r, message) ==
  /\ requests[r].pc = "fetch"
  /\ IF IsNetworkError(message)
       THEN Fallback(r, "catch")
       ELSE /\ requests' = [requests EXCEPT ![r].pc = "done", ![r].via = "catch",
                                             ![r].serverFailed = TRUE,
                                             ![r].alerted = TRUE]
            /\ loading' = FALSE
            /\ UNCHANGED <<result, analyzeTextClientSide>>
  /\ UNCHANGED <<input, preloadPending, apiKey, moduleLoads, sceneVars, serverVars>>

FetchSettles ==
  \E r \in 1..MaxRequests :
    \/ \E status \in Statuses : FetchResponds(r, status)
    \/ \E message \in Rejections : FetchRejects(r, message)

\* const data = await res.json(); setResult(data); finally setLoading(false);
\* a body that is not JSON rejects into the catch block
JsonSettles ==
  \E r \in 1..MaxRequests :
    /\ requests[r].pc = "json"
    /\ \/ \E data \in ParameterSets :
            /\ result' = data
            /\ loading' = FALSE
            /\ requests' = [requests EXCEPT ![r].pc = "done"]
            /\ UNCHANGED analyzeTextClientSide
       \/ AlertAndStop(r)
    /\ UNCHANGED <<input, preloadPending, apiKey, moduleLoads, sceneVars, serverVars>>

\* await import('../lib/openai-client') inside handleSubmit settles
ImportSettles ==
  \E r \in 1..MaxRequests :
    /\ requests[r].pc = "import"
    /\ analyzeTextClientSide' = (analyzeTextClientSide \/ moduleLoads)
    /\ AfterModule(r, requests[r].via, analyzeTextClientSide \/ moduleLoads)
    /\ UNCHANGED <<input, preloadPending, apiKey, moduleLoads, sceneVars, serverVars>>

\* await analyzeTextClientSide(input, apiKey) settles
ClientSettles ==
  \E r \in 1..MaxRequests :
    /\ requests[r].pc = "client"
    /\ \/ \E data \in ParameterSets :
            /\ result' = data
            /\ loading' = FALSE
            /\ requests' = [requests EXCEPT ![r].pc = "done"]
            /\ UNCHANGED analyzeTextClientSide
       \/ AlertAndStop(r)
    /\ UNCHANGED <<input, preloadPending, apiKey, moduleLoads, sceneVars, serverVars>>

\* await res.json().catch(...) settles; alert(errorData.error); setLoading(false)
ErrorJsonSettles ==
  \E r \in 1..MaxRequests :
    /\ requests[r].pc = "errorJson"
    /\ AlertAndStop(r)
    /\ UNCHANGED <<input, preloadPending, apiKey, moduleLoads, sceneVars, serverVars>>

\* The earlier Home of src/pages/index.js, lines 5-52.  Its handleSubmit
\* (10-26) begins as the later one does (blank test, setLoading(true),
\* setResult(null), fetch) and its key handler (29-47) inlines the same
\* statements behind the test of `loading`; after the fetch there is neither
\* a test of res.ok nor a try block.

\* what /api/analyze sends with a status other than 200
ErrorPayload == [error |-> "Analysis failed."]

\* const res = await fetch(...) settles with a response of any status
IndexFetchResponds ==
  \E r \in 1..MaxRequests, status \in Statuses :
    /\ requests[r].pc = "fetch"
    /\ requests' = [requests EXCEPT ![r].pc = "json", ![r].via = "response",
                                     ![r].serverFailed = (status # 200)]
    /\ UNCHANGED <<input, loading, result, analyzeTextClientSide, preloadPending,
                   apiKey, moduleLoads, sceneVars, serverVars>>

\* the fetch rejects: the async function ends with an unhandled rejection
IndexFetchRejects ==
  \E r \in 1..MaxRequests :
    /\ requests[r].pc = "fetch"
    /\ requests' = [requests EXCEPT ![r].pc = "done", ![r].via = "catch",
                                     ![r].serverFailed = TRUE]
    /\ UNCHANGED <<input, loading, result, analyzeTextClientSide, preloadPending,
                   apiKey, moduleLoads, sceneVars, serverVars>>

\* const data = await res.json(); setResult(data); setLoading(false)
IndexJsonSettles ==
  \E r \in 1..MaxRequests :
    /\ requests[r].pc = "json"
    /\ requests' = [requests EXCEPT ![r].pc = "done"]
    /\ loading' = FALSE
    /\ IF requests[r].serverFailed
         THEN result' = ErrorPayload
         ELSE \E data \in ParameterSets : result' = data
    /\ UNCHANGED <<input, analyzeTextClientSide, preloadPending, apiKey, moduleLoads,
                   sceneVars, serverVars>>

\* await res.json() rejects (the body is not JSON): unhandled as well
IndexJsonRejects ==
  \E r \in 1..MaxRequests :
    /\ requests[r].pc = "json"
    /\ requests' = [requests EXCEPT ![r].pc = "done", ![r].serverFailed = TRUE]
    /\ UNCHANGED <<input, loading, result, analyzeTextClientSide, preloadPending,
                   apiKey, moduleLoads, sceneVars, serverVars>>

\* src/pages/api/analyze.js.  req.body is what the framework's body parser
\* produced: an object with or without `text`, or null for the JSON text
\* `null`.
Methods == {"GET", "POST", "PUT"}

Bodies ==
  {[isNull |-> TRUE, text |-> Undefined], [isNull |-> FALSE, text |-> Undefined]}
    \cup {[isNull |-> FALSE, text |-> [defined |-> TRUE, value |-> t]] : t \in Texts}

\* !userText
Falsy(v) == ~v.defined \/ v.value = ""

\* res.status(code).json(body)
Answer(call, code, error, details, data) ==
  [call EXCEPT !.sent = Append(call.sent, [status |-> code, error |-> error,
                                            details |-> details, data |-> data]),
               !.pc = "done"]

\* the catch block, lines 70-76: details is error.message
Caught(call, message) == Answer(call, 500, "Analysis failed.", message, NoResult)

\* lines 9-24: the handler up to its await
Validate(call) ==
  IF call.method # "POST" THEN Answer(call, 405, "Method not allowed", "", NoResult)
  ELSE IF call.body.isNull
    THEN Caught(call, "Cannot read properties of null (reading 'text')")
  ELSE IF Falsy(call.body.text) THEN Answer(call, 400, "Text is required", "", NoResult)
  ELSE IF ~call.key THEN Answer(call, 500, "OpenAI API key not configured", "", NoResult)
  ELSE [call EXCEPT !.pc = "model", !.modelCalled = TRUE]

\* what the model may put in choices[0].message.content
AllHalfJSON == "{\"Fit\":0.5,\"Mesh\":0.5,\"Thickness\":0.5,\"Airflow\":0.5,\"Support\":0.5}"

ModelContents == {AllHalfJSON, "Here are the values you asked for", ""}

\* JSON.parse
JSONparse(content) ==
  IF content = AllHalfJSON THEN [threw |-> FALSE, value |-> AllHalf]
  ELSE [threw |-> TRUE, value |-> NoResult]

handler ==
  \E method \in Methods, body \in Bodies, key \in BOOLEAN :
    /\ Len(apiCalls) < MaxCalls
    /\ apiCalls' = Append(apiCalls,
                      Validate([NoCall EXCEPT !.method = method, !.body = body, !.key = key]))
    /\ UNCHANGED <<sceneVars, pageVars>>

\* client.chat.completions.create resolves: lines 68-69, or the catch block
ModelResolves ==
  \E c \in 1..Len(apiCalls), content \in ModelContents :
    /\ apiCalls[c].pc = "model"
    /\ LET parsed == JSONparse(content)
       IN  apiCalls' = [apiCalls EXCEPT ![c] =
                          IF parsed.threw THEN Caught(@, "Unexpected token")
                          ELSE Answer(@, 200, "", "", parsed.value)]
    /\ UNCHANGED <<sceneVars, pageVars>>

\* client.chat.completions.create rejects
ModelRejects ==
  \E c \in 1..Len(apiCalls) :
    /\ apiCalls[c].pc = "model"
    /\ apiCalls' = [apiCalls EXCEPT ![c] = Caught(@, "Connection error.")]
    /\ UNCHANGED <<sceneVars, pageVars>>

NextHandler == handler \/ ModelResolves \/ ModelRejects

SpecHandler == Init /\ [][NextHandler]_vars

NextIndex ==
  \/ SetInput
  \/ KeyEnter
  \/ FormSubmit
  \/ IndexFetchResponds
  \/ IndexFetchRejects
  \/ IndexJsonSettles
  \/ IndexJsonRejects

SpecIndex == Init /\ [][NextIndex]_vars

InitSubmit ==
  InitScene /\ InitServer /\ \E key \in BOOLEAN, loads \in BOOLEAN : InitPage(key, loads)

NextSubmit ==
  \/ SetInput
  \/ KeyEnter
  \/ FormSubmit
  \/ PreloadSettles
  \/ FetchSettles
  \/ JsonSettles
  \/ ImportSettles
  \/ ClientSettles
  \/ ErrorJsonSettles

SpecSubmit == InitSubmit /\ [][NextSubmit]_vars

Next ==
  \/ \E ps \in {{}} \cup {{p} : p \in ParameterSets} : Mount(ps)
  \/ \E ps \in {{}} \cup {{p} : p \in ParameterSets} : SetParameters(ps)
  \/ Unmount
  \/ Frame
  \/ MouseDown
  \/ MouseMove
  \/ MouseUp
  \/ MouseLeave
  \/ Wheel
  \/ Resize

Spec == Init /\ [][Next]_vars

\* the lifecycle in a window that keeps its size: the viewport is a factor
\* independent of builds, frames and teardown
NextLifecycle ==
  \/ \E ps \in {{}} \cup {{p} : p \in ParameterSets} : Mount(ps)
  \/ \E ps \in {{}} \cup {{p} : p \in ParameterSets} : SetParameters(ps)
  \/ Unmount
  \/ Frame
  \/ MouseDown
  \/ MouseMove
  \/ MouseUp
  \/ MouseLeave
  \/ Wheel

SpecLifecycle == Init /\ [][NextLifecycle]_vars

\* the mapper over its swept inputs: builds, rebuilds, frames and teardown
NextMapper ==
  \/ \E p \in MapperParameterSets : Mount({p})
  \/ \E p \in MapperParameterSets : SetParameters({p})
  \/ Unmount
  \/ Frame

SpecMapper == Init /\ [][NextMapper]_vars

\* the lattice over every grid size and layer count
NextLattice ==
  \/ \E p \in LatticeParameterSets : Mount({p})
  \/ \E p \in LatticeParameterSets : SetParameters({p})
  \/ Unmount
  \/ Frame

SpecLattice == Init /\ [][NextLattice]_vars

\* the controls of one scene: the mount, then frames and input events in
\* any order
NextView ==
  \/ Mount({AllHalf})
  \/ Frame
  \/ MouseDown
  \/ MouseMove
  \/ MouseUp
  \/ MouseLeave
  \/ Wheel
  \/ Resize

SpecView == Init /\ [][NextView]_vars

\* a scene without cells: the mount, then frames, drags and wheel events
NextEmpty ==
  \/ \E p \in EmptySceneParameterSets : Mount({p})
  \/ Frame
  \/ MouseDown
  \/ MouseMove
  \/ MouseUp
  \/ Wheel

SpecEmpty == Init /\ [][NextEmpty]_vars

\* drags on one scene, with wheel events and frames between the moves
NextDrag ==
  \/ Mount({AllHalf})
  \/ Frame
  \/ DragDown
  \/ DragMove
  \/ DragUp
  \/ DragLeave
  \/ Wheel

SpecDrag == Init /\ [][NextDrag]_vars

----------------------------------------------------------------------------
(* Properties.                                                             *)

\* the closure of the scene the mounted effect owns
Current == closures[effectCleanup]

\* cells of a scene: none when the layer loop does not run
TotalCells(cfg) == cfg.gridWidth * cfg.gridHeight * Max(cfg.numLayers, 0)

\* C1: on rebuild and on teardown the pending frame callback of a scene is
\* cancelled before any geometry or material of that scene is disposed (no
\* scene is ever disposed while one of its frames is scheduled), and once the
\* disposal of a scene has begun no frame callback of that scene runs or
\* stays scheduled.
FrameCancelledBeforeDisposal ==
  /\ pendingAtDispose = {}
  /\ ranAfterDispose = {}
  /\ \A id \in rafCallbacks : id.scene \notin disposeBegun

\* a rebuild has torn scene 1 down and scene 2 has run frames since
RebuiltAfterFrames ==
  /\ 1 \in disposeBegun
  /\ effectCleanup = 2
  /\ Current.frames = 2

\* C2: at any time only the scene of the mounted effect holds live geometry
\* or material: every other scene has none left, no live resource is
\* unreferenced by its scene graph (replaced outline geometries included),
\* the current scene holds exactly what its graph references, and never
\* were two scenes alive at once (the old one is disposed before the new
\* one is built).
OneGenerationAlive ==
  /\ \A g \in Scenes : g # effectCleanup => LiveTotal(resources[g]) = 0
  /\ \A g \in Scenes : resources[g].orphan = NoCounts
  /\ effectCleanup # 0 => resources[effectCleanup].alive = SceneGraph(Current)
  /\ peakGenerations <= 1

\* a second scene is alive, after frames of both
SecondGenerationAlive ==
  /\ generation = 2
  /\ effectCleanup = 2
  /\ Current.frames = 2
  /\ LiveTotal(resources[2]) > 0
  /\ peakGenerations = 1

\* C3: a build leaves rotationX, rotationY and zoomLevel as they were in the
\* scene before it (the scene it replaces, or the one torn down last).
ViewStatePersistsAcrossRebuild ==
  [][ generation' = generation + 1 =>
        LET before == IF effectCleanup # 0 THEN View(Current) ELSE lastView
        IN  before # NoView => View(closures'[generation']) = before ]_vars

\* C4: zoomLevel stays within [minZoom, maxZoom] = [0.3, 3.0], whatever
\* wheel events arrive and whether or not a drag is in progress.
ZoomClamped ==
  \A g \in Scenes :
    IsLive(closures[g]) =>
      /\ closures[g].zoomLevel >= 300
      /\ closures[g].zoomLevel <= 3000

\* a zoom-out that would pass the lower limit, during a drag
ZoomedOutToLimitWhileDragging ==
  \E g \in Scenes :
    /\ IsLive(closures[g])
    /\ closures[g].mouseDown
    /\ closures[g].zoomLevel = 300

\* C5: the clock of a scene is the number of frames the scene has executed
\* times the fixed increment: it starts from zero at every build and grows
\* by the same step with every frame.
ClockCountsFrames ==
  \A g \in Scenes :
    IsLive(closures[g]) =>
      /\ closures[g].frames >= 1
      /\ closures[g].time = closures[g].frames * TimeStep

\* the rebuilt scene has run its first frame only
RebuiltClockRestarted ==
  /\ effectCleanup = 2
  /\ 1 \in disposeBegun
  /\ Current.time = TimeStep

\* C6: the registrations a build makes are exactly the ones its cleanup
\* removes, so only the scene of the mounted effect has listeners, and
\* after teardown none is left.
ListenersRemovedOnTeardown ==
  /\ \A g \in Scenes :
       {CleanupRemovals(g)[i] : i \in 1..Len(CleanupRemovals(g))}
         = CanvasRegistrations(g) \cup WindowRegistrations(g)
  /\ \A l \in listeners : l.scene = effectCleanup
  /\ effectCleanup # 0 =>
       listeners = CanvasRegistrations(effectCleanup)
                     \cup WindowRegistrations(effectCleanup)

\* the component was torn down after a scene had been built
TornDown ==
  /\ ~mounted
  /\ disposeBegun = {1}
  /\ listeners = {}

\* C7: every cell of every layer has 0 diagonals for Airflow < 0.33, the two
\* diagonals 0-6 and 1-7 for 0.33 <= Airflow < 0.66, and all four space
\* diagonals for Airflow >= 0.66.
DiagonalsFollowAirflow ==
  effectCleanup # 0 =>
    LET cfg == ConfigOf(Current)
        a   == cfg.airflow
        expected == IF a < 33 THEN << >>
                    ELSE IF a < 66 THEN << <<0, 6>>, <<1, 7>> >>
                    ELSE << <<0, 6>>, <<1, 7>>, <<2, 4>>, <<3, 5>> >>
    IN  /\ \A layer \in 0..(cfg.numLayers - 1) :
          \A x \in 0..(cfg.gridWidth - 1) :
            \A z \in 0..(cfg.gridHeight - 1) :
              CellDiagonals(x, z, layer, a) = expected
        /\ resources[effectCleanup].alive["diagonalGeometry"]
             = Len(expected) * TotalCells(cfg)

\* a scene built at the threshold 0.66: four diagonals per cell
FourDiagonalsAtThreshold ==
  /\ effectCleanup # 0
  /\ ConfigOf(Current).airflow = 66
  /\ resources[effectCleanup].alive["diagonalGeometry"]
       = 4 * TotalCells(ConfigOf(Current))

\* C8: every cell has no face struts for Airflow < 0.34, struts on exactly the
\* top and bottom faces (4 lines) for 0.34 <= Airflow < 0.67, and on all six
\* faces (12 lines) for Airflow >= 0.67.
FaceStrutsFollowAirflow ==
  effectCleanup # 0 =>
    LET cfg == ConfigOf(Current)
        a   == cfg.airflow
        faces == IF a < 34 THEN {}
                 ELSE IF a < 67 THEN {"bottom", "top"}
                 ELSE {"bottom", "top", "front", "back", "right", "left"}
    IN  /\ \A layer \in 0..(cfg.numLayers - 1) :
          \A x \in 0..(cfg.gridWidth - 1) :
            \A z \in 0..(cfg.gridHeight - 1) :
              LET fx == FaceXLines(x, z, layer, a)
              IN  /\ {fx[i].face : i \in 1..Len(fx)} = faces
                  /\ Len(fx) = Cardinality(faces)
                  /\ LineCount(fx) = 2 * Cardinality(faces)
        /\ resources[effectCleanup].alive["faceGeometry"]
             = 2 * Cardinality(faces) * TotalCells(cfg)

\* a scene built at the threshold 0.34: top and bottom struts only
TwoFacesAtThreshold ==
  /\ effectCleanup # 0
  /\ ConfigOf(Current).airflow = 34
  /\ resources[effectCleanup].alive["faceGeometry"]
       = 4 * TotalCells(ConfigOf(Current))

\* C9: scale = 0.8 + 0.4 Fit, gridSize = round(9 * 2^(2 Mesh)) (9, 18, 36 for
\* Mesh 0, 0.5, 1), layerCount = round(1 + 4 Thickness), deformationStrength
\* = 0.8 (1 - Support); the all-0.5 ParameterSet gives gridSize 18, 3 layers,
\* scale 1.0, deformation strength 0.4 and 18 * 18 * 3 cells with 2 diagonals
\* and struts on 2 faces each.
MapperMatchesReference ==
  effectCleanup # 0 =>
    LET cfg == ConfigOf(Current)
        n   == cfg.gridSize
        k   == cfg.mesh \div 25
        r   == resources[effectCleanup].alive
    IN  /\ 10 * cfg.scale = 8000 + 4 * (10 * cfg.fit)
        /\ (2 * n - 1) * (2 * n - 1) <= 324 * Pow2(k)
        /\ 324 * Pow2(k) < (2 * n + 1) * (2 * n + 1)
        /\ cfg.mesh = 0 => n = 9
        /\ cfg.mesh = 50 => n = 18
        /\ cfg.mesh = 100 => n = 36
        /\ 100 * cfg.numLayers <= 100 + 4 * cfg.thickness + 50
        /\ 100 * cfg.numLayers > 100 + 4 * cfg.thickness - 50
        /\ 10 * cfg.deformationStrength = 8 * (1000 - 10 * cfg.support)
        /\ Current.parameters = AllHalf =>
             /\ n = 18
             /\ cfg.numLayers = 3
             /\ cfg.scale = 1000
             /\ cfg.deformationStrength = 400
             /\ Len(LayersOf(Current)) = 3
             /\ r["geometry"] = 18 * 18 * 3
             /\ r["diagonalGeometry"] = 2 * (18 * 18 * 3)
             /\ r["faceGeometry"] = 2 * 2 * (18 * 18 * 3)

\* the all-0.5 scene is built
AllHalfBuilt ==
  /\ effectCleanup # 0
  /\ Current.parameters = AllHalf
  /\ resources[effectCleanup].alive["geometry"] = 972

\* C10: for Thickness in [0, 1] the layer count lies in 1..5, is
\* non-decreasing in Thickness, and the layer loop builds exactly that many
\* layers.
LayerCountRangeAndMonotone ==
  effectCleanup # 0 =>
    LET cfg == ConfigOf(Current)
        t   == cfg.thickness
    IN  t \in 0..100 =>
          /\ cfg.numLayers \in 1..5
          /\ \A u \in 0..100 :
               /\ u <= t => NumLayers(u) <= cfg.numLayers
               /\ u >= t => NumLayers(u) >= cfg.numLayers
          /\ Len(LayersOf(Current)) = cfg.numLayers
          /\ resources[effectCleanup].alive["geometry"]
               = cfg.gridWidth * cfg.gridHeight * cfg.numLayers

\* the thickest scene: five layers built
FiveLayersBuilt ==
  /\ effectCleanup # 0
  /\ ConfigOf(Current).thickness = 100
  /\ Len(LayersOf(Current)) = 5

\* C11: each of the five parameters that is absent is read as 0.5 and the
\* build completes; a parameter that is present, the value 0 included, is
\* used as given.
AbsentParametersDefaulted ==
  effectCleanup # 0 =>
    LET p    == Current.parameters
        cfg  == ConfigOf(Current)
        used == [Fit |-> cfg.fit, Mesh |-> cfg.mesh, Thickness |-> cfg.thickness,
                 Airflow |-> cfg.airflow, Support |-> cfg.support]
    IN  /\ \A f \in Fields : used[f] = IF f \in DOMAIN p THEN p[f] ELSE 50
        /\ sceneRef = effectCleanup
        /\ resources[effectCleanup].alive["geometry"] = TotalCells(cfg)

\* a scene built from {Fit: 0, Mesh: 0}: 9 x 9 cells in the 3 default layers
PartialParametersBuilt ==
  /\ effectCleanup # 0
  /\ Current.parameters = [Fit |-> 0, Mesh |-> 0]
  /\ ConfigOf(Current).fit = 0
  /\ ConfigOf(Current).thickness = 50
  /\ resources[effectCleanup].alive["geometry"] = 9 * 9 * 3

\* C12: the layer count computed for the ParameterSet of a built scene is an
\* integer of at least 1, whatever Thickness was supplied.
LayerCountAtLeastOne ==
  effectCleanup # 0 =>
    /\ ConfigOf(Current).numLayers \in Int
    /\ ConfigOf(Current).numLayers >= 1

\* C13: two cells of a layer that are adjacent in x or in z have identical
\* coordinates at the two corners of their shared edge, on the bottom face
\* and on the top face; every corner is the lattice point of its grid
\* position.
SharedEdgeCornersIdentical ==
  effectCleanup # 0 =>
    LET cfg == ConfigOf(Current)
    IN  \A layer \in 0..(cfg.numLayers - 1) :
          \A x \in 0..(cfg.gridWidth - 1) :
            \A z \in 0..(cfg.gridHeight - 1) :
              LET v == VerticesAt(cfg, layer, x, z)
              IN  /\ v[1].x = <<x, z>> /\ v[1].y = <<x, z, layer>>
                  /\ x + 1 < cfg.gridWidth =>
                       LET e == VerticesAt(cfg, layer, x + 1, z)
                       IN  /\ v[2] = e[1] /\ v[3] = e[4]
                           /\ v[6] = e[5] /\ v[7] = e[8]
                  /\ z + 1 < cfg.gridHeight =>
                       LET s == VerticesAt(cfg, layer, x, z + 1)
                       IN  /\ v[4] = s[1] /\ v[3] = s[2]
                           /\ v[8] = s[5] /\ v[7] = s[6]

\* a 36 x 36 grid of five layers is built
LargestLatticeBuilt ==
  /\ effectCleanup # 0
  /\ ConfigOf(Current).gridWidth = 36
  /\ ConfigOf(Current).numLayers = 5
  /\ VerticesAt(ConfigOf(Current), 4, 34, 35)[7] = VerticesAt(ConfigOf(Current), 4, 35, 35)[8]

\* C14: the four top corners of cell (x, z) of layer k are the four bottom
\* corners of cell (x, z) of layer k + 1, and the bottom lattice of layer
\* k + 1 is the object layer k wrote as its top lattice.
LayerSeam ==
  effectCleanup # 0 =>
    LET cfg == ConfigOf(Current)
        lat == LatticeOf(cfg)
    IN  /\ Len(lat) = Max(cfg.numLayers, 0)
        /\ cfg.numLayers >= 1 => lat[1].bottom = NullLattice
        /\ \A layer \in 0..(cfg.numLayers - 2) :
             /\ lat[layer + 2].bottom.id = lat[layer + 1].top.id
             /\ lat[layer + 2].bottom = lat[layer + 1].top
             /\ \A x \in 0..(cfg.gridWidth - 1) :
                  \A z \in 0..(cfg.gridHeight - 1) :
                    LET lower == VerticesAt(cfg, layer, x, z)
                        upper == VerticesAt(cfg, layer + 1, x, z)
                    IN  \A i \in 1..4 : lower[i + 4] = upper[i]

\* three default layers: two seams
TwoSeamsBuilt ==
  /\ effectCleanup # 0
  /\ ConfigOf(Current).gridWidth = 18
  /\ Len(LatticeOf(ConfigOf(Current))) = 3
  /\ VerticesAt(ConfigOf(Current), 2, 17, 17)[3].y = <<18, 18, 2>>

FailedServerRequestFallsBack ==
  \A r \in 1..MaxRequests :
    (requests[r].pc = "done" /\ requests[r].serverFailed) => requests[r].clientAttempted

\* C17: an invocation of animate is atomic, and the one request it makes is
\* run by the browser only after it has returned: at any time at most one
\* frame callback is pending, it is the one animationFrameRef holds, and it
\* was requested by the latest invocation of its scene, which has completed.
AtMostOneFramePending ==
  /\ Cardinality(rafCallbacks) <= 1
  /\ \A id \in rafCallbacks :
       /\ id = animationFrameRef
       /\ IsLive(closures[id.scene])
       /\ id.seq = closures[id.scene].frames

\* the second scene has run a frame callback and has the next one pending
SecondSceneFramePending ==
  \E id \in rafCallbacks : id.scene = 2 /\ id.seq = 2 /\ closures[2].frames = 2

\* C18: every invocation of animate makes its steps in the order clock,
\* geometry, view transform, render (an empty scene has no geometry step):
\* the buffers drawn were computed at the advanced clock, and the rotation
\* and camera distance drawn are those of the ViewState the invocation found,
\* so every input handled before the frame is in the picture.
FrameStepsInOrder ==
  \A g \in Scenes :
    IsLive(closures[g]) =>
      LET c == closures[g]
          n == SceneGraph(c)["geometry"]
      IN  /\ c.trace = IF n = 0 THEN <<"clock", "view", "render">>
                                ELSE <<"clock", "geometry", "view", "render">>
          /\ c.time = c.frames * TimeStep
          /\ n > 0 => c.geometryTime = c.time /\ c.rendered.geometryTime = c.time
          /\ c.rendered.rotationX = c.frameInput.rotationX
          /\ c.rendered.rotationY = c.frameInput.rotationY
          /\ c.rendered.cameraDistance =
                (initialCameraDistance * 1000 * 1000) \div c.frameInput.zoomLevel

\* a frame callback has drawn a non-empty scene that a drag had rotated and
\* the wheel had zoomed since the frame before
RotatedZoomedFrameRendered ==
  \E g \in Scenes :
    /\ IsLive(closures[g])
    /\ closures[g].frames >= 2
    /\ SceneGraph(closures[g])["geometry"] > 0
    /\ closures[g].rendered.rotationX + closures[g].rendered.rotationY # 0
    /\ closures[g].rendered.cameraDistance # initialCameraDistance * 1000

\* the variables of the closure that make up ViewState, and those the resize
\* handler is to set
ViewStateFields == {"mouseDown", "mouseX", "mouseY", "rotationX", "rotationY", "zoomLevel"}

CameraViewportFields == {"cameraAspect", "rendererSize"}

\* closures c and d agree on every variable outside `fields`
SameExcept(c, d, fields) ==
  /\ DOMAIN c = DOMAIN d
  /\ \A f \in DOMAIN c \ fields : c[f] = d[f]

PointerOrWheelEvent == MouseDown \/ MouseMove \/ MouseUp \/ MouseLeave \/ Wheel

\* C19: a pointer or wheel event changes nothing but the ViewState variables
\* of the scene whose listener runs, and a resize nothing but camera aspect
\* and viewport size: the clock, the frame count, the buffers (geometryTime),
\* what was rendered, the parameters, the live and orphaned resources, the
\* renderers, the listeners and the pending frame stay as they were.
InputChangesOnlyViewState ==
  [][ /\ PointerOrWheelEvent =>
           /\ UNCHANGED <<lifecycleVars, viewport>>
           /\ \A g \in Scenes : SameExcept(closures[g], closures'[g], ViewStateFields)
      /\ Resize =>
           /\ UNCHANGED lifecycleVars
           /\ \A g \in Scenes : SameExcept(closures[g], closures'[g], CameraViewportFields)
    ]_vars

\* the events have acted between two frames: a scene that has run a frame
\* callback is mid-drag, rotated, zoomed and resized, with its clock and its
\* buffers as that frame left them
InputHandledBetweenFrames ==
  \E g \in Scenes :
    /\ IsLive(closures[g])
    /\ closures[g].frames = 2
    /\ closures[g].mouseDown
    /\ closures[g].rotationY # closures[g].sceneRotationY
    /\ closures[g].zoomLevel # closures[g].frameInput.zoomLevel
    /\ closures[g].cameraAspect = 2
    /\ closures[g].time = 2 * TimeStep
    /\ closures[g].geometryTime = closures[g].time

\* rotationX, rotationY and the anchor (mouseX, mouseY) of a closure
RotationAndAnchor(c) == <<c.rotationX, c.rotationY, c.mouseX, c.mouseY>>

\* C20: the view state machine, for the scene of the listener that runs:
\* mousedown leaves it dragging with the anchor at the pointer position;
\* mouseup and mouseleave leave it idle, whatever it was; a mousemove while
\* idle changes neither rotation nor anchor; a wheel event changes neither
\* the drag flag nor the anchor nor the rotation.
ViewStateMachine ==
  [][ \A l \in listeners :
        LET c == closures[l.scene]
            d == closures'[l.scene]
        IN  /\ \A e \in Positions :
                 DispatchTo(l, "mousedown", e) =>
                   d.mouseDown /\ d.mouseX = e.clientX /\ d.mouseY = e.clientY
            /\ (\/ DispatchTo(l, "mouseup", [type |-> "mouseup"])
                \/ DispatchTo(l, "mouseleave", [type |-> "mouseleave"])) =>
                 ~d.mouseDown
            /\ \A e \in Positions :
                 DispatchTo(l, "mousemove", e) /\ ~c.mouseDown =>
                   RotationAndAnchor(d) = RotationAndAnchor(c)
            /\ \A dy \in WheelDeltas :
                 DispatchTo(l, "wheel", [deltaY |-> dy]) =>
                   d.mouseDown = c.mouseDown /\ RotationAndAnchor(d) = RotationAndAnchor(c)
    ]_vars

\* a scene is idle again after a drag that rotated it, with the anchor where
\* the drag ended, and zoomed by the wheel
IdleAfterDragAndZoom ==
  \E g \in Scenes :
    /\ IsLive(closures[g])
    /\ ~closures[g].mouseDown
    /\ closures[g].rotationY = 1
    /\ closures[g].mouseX = 1
    /\ closures[g].zoomLevel = maxZoom

\* C21: in every layer of the scene built, every node (i, j) of the top
\* lattice is assigned exactly once in the cell traversal, the unguarded
\* write of corner (z+1, x+1) included, and that assignment finds the node
\* null; afterwards no node is null and node (i, j) is the bottom-lattice
\* node (i, j) with cubeSize added to y, x and z as they were.
TopNodesWrittenOnce ==
  effectCleanup # 0 =>
    LET cfg == ConfigOf(Current)
        lat == LatticeOf(cfg)
        vg  == VertexGrid(cfg.gridWidth, cfg.gridHeight)
    IN  \A layer \in 0..(cfg.numLayers - 1) :
          \A i \in 0..cfg.gridHeight :
            \A j \in 0..cfg.gridWidth :
              LET ws     == TopWrites(WritesTo(i, j, cfg.gridWidth, cfg.gridHeight), TRUE)
                  node   == lat[layer + 1].top.rows[i + 1][j + 1]
                  below  == IF layer = 0 THEN vg[i * (cfg.gridWidth + 1) + j + 1]
                            ELSE lat[layer + 1].bottom.rows[i + 1][j + 1]
              IN  /\ Len(ws) = 1
                  /\ ~ws[1].overwrites
                  /\ node # Null
                  /\ node.x = below.x /\ node.z = below.z
                  /\ node.y = <<below.y[1], below.y[2], below.y[3] + 1>>
                  /\ node.y = <<j, i, layer + 1>>

\* a scene of several layers is built whose interior nodes are reached by
\* four writes, the unguarded one first
InteriorNodeReachedByFourWrites ==
  /\ effectCleanup # 0
  /\ ConfigOf(Current).numLayers = 3
  /\ ConfigOf(Current).gridWidth = 13
  /\ Len(WritesTo(5, 7, 13, ConfigOf(Current).gridHeight)) = 4
  /\ ~WritesTo(5, 7, 13, ConfigOf(Current).gridHeight)[1].guarded
  /\ LatticeOf(ConfigOf(Current))[3].top.rows[6][8].y = <<7, 5, 3>>

\* C22: after any number of frames the scene of the mounted effect holds as
\* many live outline geometries as it has cells, all referenced by its
\* outlines and derived from the buffers of the latest frame, and no
\* replaced outline geometry is left undisposed.
OutlineGeometryDisposedOnReplacement ==
  effectCleanup # 0 =>
    LET c == Current
        r == resources[effectCleanup]
    IN  /\ r.alive["outlineGeometry"] = TotalCells(ConfigOf(c))
        /\ r.alive["outlineGeometry"] = SceneGraph(c)["outlineGeometry"]
        /\ r.orphan["outlineGeometry"] = 0
        /\ TotalCells(ConfigOf(c)) > 0 => c.outlineTime = c.time

\* the scene with every strut has replaced all its outline geometries in
\* two invocations of animate
DenseOutlinesReplaced ==
  /\ effectCleanup # 0
  /\ Current.parameters = Dense
  /\ Current.frames = 2
  /\ resources[effectCleanup].alive["outlineGeometry"] > 0

\* C23: in a scene without cells every invocation of animate skips the
\* displacement (the buffers stay at rest, nothing is live), applies the
\* rotation and the zoom it finds to scene and camera, renders, and leaves
\* the next frame requested.
EmptySceneStillDrawn ==
  effectCleanup # 0 /\ TotalCells(ConfigOf(Current)) = 0 =>
    LET c == Current
    IN  /\ c.trace = <<"clock", "view", "render">>
        /\ c.geometryTime = AtRest
        /\ resources[effectCleanup].alive = NoCounts
        /\ c.sceneRotationX = c.frameInput.rotationX
        /\ c.sceneRotationY = c.frameInput.rotationY
        /\ c.cameraDistance =
              (initialCameraDistance * 1000 * 1000) \div c.frameInput.zoomLevel
        /\ c.rendered = [geometryTime |-> AtRest,
                         rotationX |-> c.frameInput.rotationX,
                         rotationY |-> c.frameInput.rotationY,
                         cameraDistance |-> c.cameraDistance]
        /\ rafCallbacks = {[scene |-> effectCleanup, seq |-> c.frames]}

\* an empty scene (layer count 0) was dragged and zoomed, and the frame after
\* drew it rotated and from the new camera distance
EmptySceneRotatedAndZoomed ==
  /\ effectCleanup # 0
  /\ ConfigOf(Current).numLayers = 0
  /\ Current.frames = 2
  /\ Current.rendered.rotationY = 1
  /\ Current.rendered.cameraDistance = (initialCameraDistance * 1000 * 1000) \div maxZoom

\* C24: after any number of frames originalPositions holds the rest corners
\* captured by the build, and the position buffers hold getWaveOffset of the
\* rest corners at the present clock, applied once: nothing of an earlier
\* frame's displacement is in them.
RestPositionsNeverModified ==
  \A g \in Scenes :
    IsLive(closures[g]) =>
      LET c == closures[g]
      IN  /\ c.originalPositions = RestPositions
          /\ SceneGraph(c)["geometry"] > 0 =>
                c.positions = [base |-> "rest", passes |-> 1, time |-> c.frames * TimeStep]

\* the buffers were displaced in a second invocation of animate, after a
\* drag had rotated the scene
DisplacedAgainAfterDrag ==
  \E g \in Scenes :
    /\ IsLive(closures[g])
    /\ closures[g].frames = 2
    /\ closures[g].sceneRotationY = 1
    /\ closures[g].positions.time = 2 * TimeStep
    /\ closures[g].positions.passes = 1

\* the two diagonals of the quad a-b-c-d a face is drawn as
FaceDiagonals(f) == { {cubeFaces[f][1], cubeFaces[f][3]}, {cubeFaces[f][2], cubeFaces[f][6]} }

\* C25: after every invocation of animate each diagonal and each face strut
\* of the scene ends at the displaced positions, at the present clock, of the
\* two rest corners it was built between, and the two struts of a face are
\* the two diagonals of the four corners of that face.
StrutsKeepTheirCorners ==
  \A g \in Scenes :
    IsLive(closures[g]) /\ SceneGraph(closures[g])["geometry"] > 0 =>
      LET c     == [closures[g] EXCEPT !.lines = LinesOf(closures[g])]
          built == SceneLines[closures[g].parameters]
          now   == [base |-> "rest", passes |-> 1, time |-> c.time]
      IN  /\ c.lines.at = now
          /\ Len(c.lines.diagonalLines) = Len(built.diagonalLines)
          /\ \A i \in 1..Len(built.diagonalLines) :
               c.lines.diagonalLines[i] = built.diagonalLines[i]
          /\ Len(c.lines.faceXLines) = Len(built.faceXLines)
          /\ \A k \in 1..Len(built.faceXLines) :
               LET was == built.faceXLines[k]
                   is  == c.lines.faceXLines[k]
               IN  /\ is.face = was.face
                   /\ Len(is.lines) = 2
                   /\ \A i \in 1..2 : is.lines[i] = was.lines[i]
                   /\ {{is.lines[i][1], is.lines[i][2]} : i \in 1..2}
                        = FaceDiagonals(is.face)

\* a scene with all four diagonals and the struts of all six faces has moved
\* them in a second invocation of animate
AllStrutsMoved ==
  \E g \in Scenes :
    /\ IsLive(closures[g])
    /\ closures[g].frames = 2
    /\ Len(LinesOf(closures[g]).diagonalLines) = 4
    /\ Len(LinesOf(closures[g]).faceXLines) = 6
    /\ LinesOf(closures[g]).at.time = 2 * TimeStep

\* C26: the number of diagonals and the number of strutted faces of a cell
\* of the scene built form one of the pairs (0,0), (2,0), (2,2), (4,2),
\* (4,6); Airflow 0.33 gives (2,0) and Airflow 0.66 gives (4,2), the bands
\* the offset thresholds open.
OrnamentCombinations ==
  effectCleanup # 0 /\ TotalCells(ConfigOf(Current)) > 0 =>
    LET a     == ConfigOf(Current).airflow
        combo == <<Len(LinesOf(Current).diagonalLines), Len(LinesOf(Current).faceXLines)>>
    IN  /\ combo \in {<<0, 0>>, <<2, 0>>, <<2, 2>>, <<4, 2>>, <<4, 6>>}
        /\ a < 33 => combo = <<0, 0>>
        /\ a >= 33 /\ a < 34 => combo = <<2, 0>>
        /\ a >= 34 /\ a < 66 => combo = <<2, 2>>
        /\ a >= 66 /\ a < 67 => combo = <<4, 2>>
        /\ a >= 67 => combo = <<4, 6>>
        /\ resources[effectCleanup].alive["diagonalGeometry"]
             = combo[1] * TotalCells(ConfigOf(Current))
        /\ resources[effectCleanup].alive["faceGeometry"]
             = 2 * combo[2] * TotalCells(ConfigOf(Current))

\* a scene is built at Airflow 0.66: four diagonals, struts on two faces
FourDiagonalsTwoFaces ==
  /\ effectCleanup # 0
  /\ ConfigOf(Current).airflow = 66
  /\ Len(LinesOf(Current).diagonalLines) = 4
  /\ Len(LinesOf(Current).faceXLines) = 2

InFlight == {r \in 1..MaxRequests : requests[r].pc \notin {"idle", "done"}}

\* C28: at most one analysis request is in flight at any time (no Enter
\* keypress and no form submit starts a request while another is pending).
AtMostOneRequestInFlight == Cardinality(InFlight) <= 1

\* C29: once every submit made has ended, loading is false, and result is
\* never anything but null or a ParameterSet (a failed submit leaves no
\* error payload in it); a submit with blank input starts nothing.
SubmitEndsWithoutErrorPayload ==
  /\ (Started # {} /\ InFlight = {}) => ~loading
  /\ result = NoResult \/ result \in ParameterSets
  /\ Trim(input) = "" /\ Started = {} => ~loading /\ result = NoResult

\* C30: the handler answers every call exactly once and in a fixed order of
\* checks: 405 for a method other than POST, 400 for a POST without text,
\* 500 for a POST with text and no API key; the model is called only when
\* all three checks pass, and then the answer is 500 on a failure and 200
\* with the parsed record on success.
HandlerChecksInOrder ==
  \A c \in 1..Len(apiCalls) :
    LET call == apiCalls[c]
        noText == call.body.isNull \/ Falsy(call.body.text)
    IN  /\ Len(call.sent) = (IF call.pc = "done" THEN 1 ELSE 0)
        /\ call.modelCalled <=> (call.method = "POST" /\ ~noText /\ call.key)
        /\ call.pc = "done" =>
              call.sent[1].status =
                (IF call.method # "POST" THEN 405
                 ELSE IF noText THEN 400
                 ELSE IF ~call.key THEN 500
                 ELSE IF call.sent[1].data # NoResult THEN 200 ELSE 500)
        /\ call.pc = "done" /\ call.sent[1].status = 200 =>
              call.modelCalled /\ call.sent[1].data = JSONparse(AllHalfJSON).value

====
